---- MODULE Spec2Model ----
(***************************************************************************)
(* flight_search: the fetch / quota / cache pipeline of                    *)
(* src/src/flight_search/flight_fetcher.py as a state machine, its usage   *)
(* and cache functions called one at a time, and steps 6 and 6b of main    *)
(* (result_processor.py: process_results, apply_post_filters).             *)
(*                                                                         *)
(* Python values are represented as follows.                               *)
(*   dict with string keys      a function whose DOMAIN is the set of keys *)
(*   None                       the string "None"                          *)
(*   "a,b,c,d" (a time window)  the sequence of its comma-separated parts, *)
(*                              <<>> for None                              *)
(*   a flight group             [id, departure_token, return_flights]:     *)
(*                              id names the group's segments, "" is a     *)
(*                              missing token, 0 is "no return leg data"   *)
(*   the SHA-256 cache key      the canonical dict itself (collision-free) *)
(*   timestamps                 whole seconds                              *)
(***************************************************************************)
EXTENDS Integers, Sequences, FiniteSets, TLC

VARIABLES
    combinations,   \* fetch_all argument: list of SearchCombination
    post_filters,   \* fetch_all argument: list of PostFilter
    NO_CACHE,       \* config.NO_CACHE
    cacheWritable,  \* FALSE: CACHE_FILE.write_text raises OSError
    today,          \* date.today().strftime("%Y-%m")
    now,            \* datetime.now(timezone.utc).timestamp()
    usageFile,      \* contents of config.USAGE_FILE, or Missing
    cacheFile,      \* config.CACHE_FILE: [readable, entries], entries being
                    \* key -> [timestamp, response]; readable FALSE when
                    \* read_text or json.loads raises
    pc,             \* position of fetch_all
    i,              \* main loop: enumerate(combinations, start=1)
    raw,            \* the response fetch_combination is working on / returned
    k,              \* _enrich_return_legs: position in all_groups[:5]
    outbound_groups,\* fetch_all: result of the first one-way lookup of a pair
    results,        \* fetch_all: the list it returns
    d,              \* dual-fetch loop: position in combinations
    a,              \* dual-fetch loop: position in airline_filters
    seen_routes,    \* dual-fetch loop: route keys already processed
    run,            \* the fetch_all run in progress: "first" or "second"
    firstResults,   \* history: the list the first run returned
    usage0,         \* history: this month's persisted count when the run started
    ev,             \* history: what the last step did (lookup, external call)
    hist,           \* history: where the run met the quota / an auth error
    cacheShape,     \* config.CACHE_FILE: what json.loads makes of a file that
                    \* parses, "object" (a dict) or "array" (a list)
    op,             \* the last direct call of a usage / cache function or of
                    \* fetch_combination, and how it ended
    flights,        \* main: `results`, the FlightResult list being built
    fpos,           \* apply_post_filters: position of `for pf in post_filters`
    parseFile,      \* contents of config.PARSED_CACHE_FILE, or Missing
    saved,          \* history: the last parse _save_parse wrote, its query, the call
    proc            \* two fetch processes on the same files: what each holds

vars == <<combinations, post_filters, NO_CACHE, cacheWritable, today, now,
          usageFile, cacheFile, pc, i, raw, k, outbound_groups, results, d, a,
          seen_routes, run, firstResults, usage0, ev, hist, cacheShape, op,
          flights, fpos,
      parseFile,
      saved,
      proc>>

\* what fetch_all itself neither reads nor writes
outside == <<cacheShape, op, flights, fpos,
      parseFile,
      saved,
      proc>>

(***************************************************************************)
(* Bounds of the model.                                                    *)
(***************************************************************************)
\* longest combination list handed to fetch_all
MaxCombos == 2
\* the persisted count starts between the limit minus MaxHeadroom and the limit
MaxHeadroom == 2
\* most lookups (primary, return-leg, one-way, dual-fetch) a run can make when
\* the run starts with the whole monthly quota free, or is run again
MaxLookups == 6
\* the same for the runs on the wider inputs
MaxWideLookups == 8
\* most direct calls of the usage and cache functions in a row
MaxCalls == 3
\* longest list of raw responses handed to process_results
MaxResponses == 2

(***************************************************************************)
(* config.py                                                               *)
(***************************************************************************)
SERPAPI_MONTHLY_LIMIT == 250
SERPAPI_CACHE_TTL_HOURS == 12
SERPAPI_KEY == "key-1"

None == "None"
\* a file that does not exist
Missing == [tag |-> "missing"]
\* None where a response dict is expected
NoResponse == [tag |-> "None"]
\* a usage file whose text json.loads rejects
NotJson == [tag |-> "not_json"]
\* a file holding JSON that is not an object: [], "text", 3, null
NotObject == [tag |-> "not_object"]
\* None where a ParsedQuery is expected
NoParse == [tag |-> "None"]
\* no parse saved yet
NoSave == [parsed |-> NoParse, query_text |-> "", n |-> 0]

\* {}
EmptyDict == [x \in {} |-> x]
\* dict helpers: d[key] = value and d.pop(key, None)
Put(dict, key, value) ==
    [x \in DOMAIN dict \cup {key} |-> IF x = key THEN value ELSE dict[x]]
Pop(dict, key) == [x \in DOMAIN dict \ {key} |-> dict[x]]
Get(dict, key, default) == IF key \in DOMAIN dict THEN dict[key] ELSE default

\* str(n) for the small integers of a SearchCombination
Str(n) == <<"0", "1", "2", "3", "4", "5", "6">>[n + 1]

(***************************************************************************)
(* Usage tracking                                                          *)
(***************************************************************************)
_load_usage_reset == [month |-> today, count |-> 0]
\* _load_usage without the month test
_load_usage_keep ==
    IF usageFile = Missing \/ usageFile = NotJson
    THEN [month |-> today, count |-> 0]
    ELSE usageFile
\* _load_usage: a missing file, a text that is not JSON or a stored month
\* other than today's (data.get("month") is None when there is none) reads
\* as 0; anything else is returned as it was read
_load_usage ==
    IF usageFile = Missing
    THEN [month |-> today, count |-> 0]
    ELSE IF usageFile = NotJson
         THEN [month |-> today, count |-> 0]
         ELSE IF Get(usageFile, "month", None) # today
              THEN [month |-> today, count |-> 0]
              ELSE usageFile

\* usage["count"] raises KeyError on a dict without that key
HasCount(usage) == "count" \in DOMAIN usage

get_monthly_usage == _load_usage.count

\* _increment_usage: the content _save_usage writes
_increment_usage == [_load_usage EXCEPT !.count = @ + 1]

\* the quota test of fetch_combination, repeated in _lookup_return_group
\* and _fetch_one_way_groups
LimitReachedOff(usage) == usage.count > SERPAPI_MONTHLY_LIMIT
LimitReached(usage) == usage.count >= SERPAPI_MONTHLY_LIMIT

(***************************************************************************)
(* Local response cache                                                    *)
(***************************************************************************)
_cache_key_whole(params) == params
\* _cache_key: the params without api_key (sorting and hashing are
\* injective on the canonical dict)
_cache_key(params) == Pop(params, "api_key")

\* the content of a cache file that parses
CacheFile(entries) == [readable |-> TRUE, entries |-> entries]

\* _cache_load: {} when the file cannot be read or parsed
_cache_load == IF cacheFile.readable THEN cacheFile.entries ELSE EmptyDict

\* _cache_load hands its caller a dict: {} for a file that is missing, cannot
\* be read or is not JSON, else what json.loads returns.  Bytes that are not
\* UTF-8 make read_text raise UnicodeDecodeError, which _cache_load lets
\* through; a JSON array is returned as a list
LoadedDict == ~cacheFile.readable \/ cacheShape = "object"

TtlSeconds == SERPAPI_CACHE_TTL_HOURS * 3600

_cache_save_keep(cache) == IF cacheWritable THEN CacheFile(cache) ELSE cacheFile
\* _cache_save: the file content after the call (prune, then write; an OSError
\* leaves the file as it was)
_cache_save(cache) ==
    LET pruned == [key \in {x \in DOMAIN cache : now - cache[x].timestamp < TtlSeconds}
                      |-> cache[key]]
    IN  IF cacheWritable THEN CacheFile(pruned) ELSE cacheFile

\* _cache_lookup: the cached response or None (NoResponse)
_cache_lookup_never(params) == NoResponse
_cache_lookup_stale(params) ==
    IF NO_CACHE \/ _cache_key(params) \notin DOMAIN _cache_load
    THEN NoResponse
    ELSE _cache_load[_cache_key(params)].response
_cache_lookup_strict(params) ==
    IF NO_CACHE \/ _cache_key(params) \notin DOMAIN _cache_load
    THEN NoResponse
    ELSE IF now - _cache_load[_cache_key(params)].timestamp >= TtlSeconds
         THEN NoResponse
         ELSE _cache_load[_cache_key(params)].response
_cache_lookup(params) ==
    IF NO_CACHE
    THEN NoResponse
    ELSE LET key == _cache_key(params)
             cache == _cache_load
         IN  IF key \notin DOMAIN cache
             THEN NoResponse
             ELSE IF now - cache[key].timestamp > SERPAPI_CACHE_TTL_HOURS * 3600
                  THEN NoResponse
                  ELSE cache[key].response

\* _cache_store without the NO_CACHE test
_cache_store_always(params, response) ==
    _cache_save(Put(_cache_load, _cache_key(params),
                    [timestamp |-> now, response |-> response]))
\* _cache_store: the file content after the call
_cache_store(params, response) ==
    IF NO_CACHE
    THEN cacheFile
    ELSE LET key == _cache_key(params)
             cache == _cache_load
             entry == [timestamp |-> now, response |-> response]
         IN  _cache_save(Put(cache, key, entry))

(***************************************************************************)
(* Query parameters                                                        *)
(***************************************************************************)
\* str.upper() and str.strip() on the strings the model uses
Upper(code) == IF code = "was" THEN "WAS" ELSE code
Strip(part) == IF part = " 23" THEN "23" ELSE part

_METRO_EXPANSION ==
    [WAS |-> "DCA,IAD,BWI", NYC |-> "JFK,EWR,LGA", CHI |-> "ORD,MDW",
     YTO |-> "YYZ,YTZ", BJS |-> "PEK,PKX", SEA |-> "SEA"]

\* _expand_airports
_expand_airports(code) == Get(_METRO_EXPANSION, Upper(code), code)

\* _departure_only: the first two parts of a window of two or more parts
_departure_all(time_str) == time_str
_departure_only(time_str) ==
    IF Len(time_str) >= 2
    THEN <<Strip(time_str[1]), Strip(time_str[2])>>
    ELSE time_str

\* combo.type == 1 and combo.return_date
IsRoundTrip(combo) == combo.type = 1 /\ combo.return_date # None

\* _build_params
_build_params(combo) ==
    LET p0 == [engine |-> "google_flights",
               api_key |-> SERPAPI_KEY,
               departure_id |-> _expand_airports(combo.departure_id),
               arrival_id |-> _expand_airports(combo.arrival_id),
               outbound_date |-> combo.outbound_date,
               type |-> Str(combo.type),
               travel_class |-> Str(combo.travel_class),
               adults |-> Str(combo.adults),
               children |-> Str(combo.children),
               stops |-> Str(combo.stops),
               sort_by |-> Str(combo.sort_by),
               bags |-> Str(combo.bags),
               currency |-> "USD", hl |-> "en", gl |-> "us",
               deep_search |-> "true"]
        p1 == IF combo.return_date # None
              THEN Put(p0, "return_date", combo.return_date) ELSE p0
        p2 == IF combo.include_airlines # None
              THEN Put(p1, "include_airlines", combo.include_airlines)
              ELSE IF combo.exclude_airlines # None
                   THEN Put(p1, "exclude_airlines", combo.exclude_airlines)
                   ELSE p1
        p3 == IF combo.max_price # None
              THEN Put(p2, "max_price", Str(combo.max_price)) ELSE p2
        p4 == IF combo.max_duration # None
              THEN Put(p3, "max_duration", Str(combo.max_duration)) ELSE p3
        p5 == IF combo.outbound_times # <<>>
              THEN Put(p4, "outbound_times", _departure_only(combo.outbound_times))
              ELSE p4
    IN  IF combo.return_times # <<>>
        THEN Put(p5, "return_times", _departure_only(combo.return_times))
        ELSE p5

\* fetch_all, the one-way pair of a round-trip combination: `base` is
\* _build_params(combo) with the airline filters as the caller left them
OneWayOutbound(base) ==
    LET p == Pop(Pop(Put(base, "type", "2"), "return_date"), "return_times")
    IN  IF "outbound_times" \in DOMAIN p /\ Len(p.outbound_times) = 4
        THEN Put(p, "outbound_times", <<p.outbound_times[1], p.outbound_times[2]>>)
        ELSE p

OneWayReturn(base, combo) ==
    LET p0 == Put(base, "type", "2")
        p1 == Put(p0, "departure_id", _expand_airports(combo.arrival_id))
        p2 == Put(p1, "arrival_id", _expand_airports(combo.departure_id))
        p3 == Put(p2, "outbound_date", combo.return_date)
        p4 == Pop(Pop(p3, "return_date"), "outbound_times")
    IN  IF combo.return_times # <<>>
        THEN Put(p4, "outbound_times",
                 IF Len(combo.return_times) >= 2
                 THEN <<combo.return_times[1], combo.return_times[2]>>
                 ELSE combo.return_times)
        ELSE p4

\* fetch_all main loop: airline filters stripped
IndependentBaseKeep(combo) == _build_params(combo)
IndependentBase(combo) ==
    Pop(Pop(_build_params(combo), "include_airlines"), "exclude_airlines")
outbound_params(combo) == OneWayOutbound(IndependentBase(combo))
return_params(combo) == OneWayReturn(IndependentBase(combo), combo)

\* fetch_all dual-fetch: the preferred airline forced into include_airlines
_NAME_TO_IATA ==
    [spirit |-> "NK", frontier |-> "F9", southwest |-> "WN", allegiant |-> "G4",
     jetblue |-> "B6", alaska |-> "AS", hawaiian |-> "HA", united |-> "UA",
     american |-> "AA", delta |-> "DL", lufthansa |-> "LH"]
\* af.value.lower() and af.value.upper()[:2] on the filter values of the model
LowerName(value) == IF value = "Frontier" THEN "frontier" ELSE value
UpperTwo(value) == IF value = "zz air" THEN "ZZ" ELSE value
Iata(value) == Get(_NAME_TO_IATA, LowerName(value), UpperTwo(value))

DualBase(combo, iata) ==
    Pop(Put(_build_params(combo), "include_airlines", iata), "exclude_airlines")
out_p(combo, iata) == OneWayOutbound(DualBase(combo, iata))
ret_p(combo, iata) == OneWayReturn(DualBase(combo, iata), combo)

\* airline_filters = [f for f in post_filters if f.filter_type == ...]
airline_filters ==
    SelectSeq(post_filters, LAMBDA f : f.filter_type = "at_least_one_leg_airline")

\* route_key of the dual-fetch loop
route_key_short(combo) == <<combo.departure_id, combo.arrival_id>>
route_key(combo) ==
    <<combo.departure_id, combo.arrival_id, combo.outbound_date, combo.return_date>>

(***************************************************************************)
(* The upstream API: what GoogleSearch(params).get_dict() can do           *)
(***************************************************************************)
Group(id, token) == [id |-> id, departure_token |-> token, return_flights |-> 0]
\* {} as a group: falsy
NoGroup == Group(0, "")

Body(best, other) ==
    [tag |-> "response", best_flights |-> best, other_flights |-> other]
EmptyBody == Body(<<>>, <<>>)
Bodies ==
    { EmptyBody,
      Body(<<Group(1, "tokA")>>, <<Group(2, "")>>) }

NoError == ""
AuthErrorText == "Invalid API key. Your API key should be here: https://serpapi.com/manage-api-key"
OtherErrorText == "Google Flights hasn't returned any results for this query."

\* an answer: the call raises, or returns a dict with an error, or a body
Upstream ==
    {[raises |-> TRUE, error |-> NoError, body |-> EmptyBody]}
    \cup {[raises |-> FALSE, error |-> e, body |-> EmptyBody] :
             e \in {AuthErrorText, OtherErrorText}}
    \cup {[raises |-> FALSE, error |-> NoError, body |-> b] : b \in Bodies}

\* a round-trip search between busy airports can come back with more groups
\* than _enrich_return_legs looks at
BusyAirports == "JFK,EWR,LGA"
\* what the upstream can answer to a query with these params
Answers(params) ==
    LET WideBody ==
            Body(<<Group(1, "tok1"), Group(2, "tok2"), Group(3, "tok3")>>,
                 <<Group(4, "tok4"), Group(5, "tok5"), Group(6, "tok6")>>)
    IN  IF /\ params.arrival_id = BusyAirports
           /\ params.type = "1"
           /\ "departure_token" \notin DOMAIN params
        THEN Upstream \cup {[raises |-> FALSE, error |-> NoError, body |-> WideBody]}
        ELSE Upstream

\* str(error).lower()
LowerError(error) ==
    IF error = AuthErrorText
    THEN "invalid api key. your api key should be here: https://serpapi.com/manage-api-key"
    ELSE IF error = OtherErrorText
         THEN "google flights hasn't returned any results for this query."
         ELSE error
\* the lower-case texts that contain "invalid api key"
HasInvalidApiKey(text) ==
    text = "invalid api key. your api key should be here: https://serpapi.com/manage-api-key"

\* fetch_combination: "invalid api key" in str(error).lower()
IsFatalErrorNever(error) == FALSE
IsFatalErrorAlways(error) == TRUE
IsFatalError(error) == HasInvalidApiKey(LowerError(error))

\* results.get("best_flights", []) + results.get("other_flights", [])
all_groups(response) == response.best_flights \o response.other_flights

\* the entries of the list fetch_all returns, besides response bodies
EmptyResponse == [tag |-> "empty"]
FatalSentinelSwallowed(error) == EmptyResponse
FatalSentinel(error) == [tag |-> "fatal", error |-> error]
IsFatal(entry) == entry.tag = "fatal"

(***************************************************************************)
(* The three lookups.  Each operator gives, for the current files and the  *)
(* upstream answer `up` (read only when the call is issued):               *)
(*   value   what the function returns                                     *)
(*   usage   the usage file afterwards      cache  the cache file afterwards*)
(*   lookup  "hit" | "miss" | "none"        call   "none" | "raised" |     *)
(*                                                 "error" | "answered"    *)
(***************************************************************************)
Outcome(value, usage, cache, lookup, call) ==
    [value |-> value, usage |-> usage, cache |-> cache, lookup |-> lookup, call |-> call]

CallOutcome(up) ==
    IF up.raises THEN "raised" ELSE IF up.error # NoError THEN "error" ELSE "answered"

\* fetch_combination up to the call of _enrich_return_legs
fetch_combination(combo, up) ==
    LET usage == _load_usage
        params == _build_params(combo)
        cached == _cache_lookup(params)
    IN  IF LimitReached(usage)
        THEN Outcome(EmptyResponse, usageFile, cacheFile, "none", "none")
        ELSE IF cached # NoResponse
        THEN Outcome(cached, usageFile, cacheFile, "hit", "none")
        ELSE IF up.raises
        THEN Outcome(EmptyResponse, usageFile, cacheFile, "miss", "raised")
        ELSE IF up.error # NoError
        THEN Outcome(IF IsFatalError(up.error) THEN FatalSentinel(up.error)
                                               ELSE EmptyResponse,
                     usageFile, cacheFile, "miss", "error")
        ELSE Outcome(up.body, _increment_usage, _cache_store(params, up.body),
                     "miss", "answered")

\* _lookup_return_group
_lookup_return_group(base_params, departure_token, up) ==
    LET params == Put(base_params, "departure_token", departure_token)
        cached == _cache_lookup(params)
        groups == all_groups(up.body)
    IN  IF cached # NoResponse
        THEN Outcome(IF all_groups(cached) # <<>> THEN all_groups(cached)[1] ELSE NoGroup,
                     usageFile, cacheFile, "hit", "none")
        ELSE IF LimitReached(_load_usage)
        THEN Outcome(NoGroup, usageFile, cacheFile, "miss", "none")
        ELSE IF up.raises \/ up.error # NoError \/ groups = <<>>
        THEN Outcome(NoGroup, usageFile, cacheFile, "miss", CallOutcome(up))
        ELSE Outcome(groups[1], _increment_usage, _cache_store(params, up.body),
                     "miss", "answered")

\* _fetch_one_way_groups
_fetch_one_way_groups(params, up) ==
    LET cached == _cache_lookup(params)
        groups == all_groups(up.body)
    IN  IF cached # NoResponse
        THEN Outcome(all_groups(cached), usageFile, cacheFile, "hit", "none")
        ELSE IF LimitReached(_load_usage)
        THEN Outcome(<<>>, usageFile, cacheFile, "miss", "none")
        ELSE IF up.raises \/ up.error # NoError
        THEN Outcome(<<>>, usageFile, cacheFile, "miss", CallOutcome(up))
        ELSE IF groups # <<>>
        THEN Outcome(groups, _increment_usage, _cache_store(params, up.body),
                     "miss", "answered")
        ELSE Outcome(groups, usageFile, cacheFile, "miss", "answered")

(***************************************************************************)
(* Inputs of the model                                                     *)
(***************************************************************************)
Combo(type, return_date, include_airlines, return_times) ==
    [departure_id |-> "AUS", arrival_id |-> "WAS",
     outbound_date |-> "2026-03-27", return_date |-> return_date,
     type |-> type, travel_class |-> 1, adults |-> 1, children |-> 0,
     stops |-> 0, include_airlines |-> include_airlines,
     exclude_airlines |-> None, max_price |-> None, max_duration |-> None,
     bags |-> 0, sort_by |-> 2, outbound_times |-> <<>>,
     return_times |-> return_times]


\* the combinations of the model: a round trip and a one-way search, a busy
\* route, a later return, time windows of four, three and one part, airline
\* filters
Combos ==
    LET RoundTrip == Combo(1, "2026-03-30", None, <<>>)
        OneWay == Combo(2, None, None, <<>>)
    IN  [RoundTrip |-> RoundTrip,
         OneWay |-> OneWay,
         BusyRoundTrip |-> [RoundTrip EXCEPT !.arrival_id = "NYC"],
         RoundTripLater |-> [RoundTrip EXCEPT !.return_date = "2026-04-02"],
         FourPartWindows |->
            [RoundTrip EXCEPT !.outbound_times = <<"6", "12", "8", " 23">>,
                              !.return_times = <<"14", "20", "16", "23">>,
                              !.include_airlines = "NK"],
         ThreePartWindows |->
            [RoundTrip EXCEPT !.outbound_times = <<"6", "12", "8">>,
                              !.return_times = <<"14", "20", "16">>,
                              !.exclude_airlines = "F9"],
         OnePartWindows |->
            [RoundTrip EXCEPT !.outbound_times = <<"6">>, !.return_times = <<"14">>,
                              !.include_airlines = "NK", !.exclude_airlines = "F9"],
         OneWayWindow |-> [OneWay EXCEPT !.outbound_times = <<"6", "12", "8", " 23">>]]

CombinationLists ==
    UNION {[1..n -> {Combos.RoundTrip, Combos.OneWay}] : n \in 1..MaxCombos}

PostFilter(filter_type, value, leg) ==
    [filter_type |-> filter_type, value |-> value, leg |-> leg]
FilterLists ==
    { <<>>,
      <<PostFilter("arrival_before", "2026-03-30T08:00", "any"),
        PostFilter("at_least_one_leg_airline", "Frontier", "any")>> }

WideLists ==
    {<<Combos[c]>> : c \in DOMAIN Combos}
    \cup {<<Combos.RoundTrip, Combos.RoundTripLater>>,
          <<Combos.RoundTripLater, Combos.RoundTrip>>,
          <<Combos.RoundTrip, Combos.RoundTrip>>,
          <<Combos.OneWay, Combos.RoundTripLater>>}
WideFilterLists ==
    FilterLists
    \cup { <<PostFilter("at_least_one_leg_airline", "Frontier", "any"),
             PostFilter("at_least_one_leg_airline", "zz air", "outbound")>> }

\* time that passes between two runs: an hour, exactly the TTL, just over it
ElapseChoices == {3600, TtlSeconds, TtlSeconds + 1}

(***************************************************************************)
(* History variables                                                       *)
(***************************************************************************)
NoEvent ==
    [site |-> "none", key |-> EmptyDict, lookup |-> "none", call |-> "none",
     error |-> NoError, groups |-> 0, slept |-> FALSE]
SleepEvent == [NoEvent EXCEPT !.slept = TRUE]
\* a lookup at `site` with cache key `key`, outcome r, upstream answer up
Event(site, key, r, up) ==
    [site |-> site, key |-> key, lookup |-> r.lookup, call |-> r.call,
     error |-> IF r.call = "error" THEN up.error ELSE NoError,
     groups |-> IF r.call = "answered" THEN Len(all_groups(up.body)) ELSE 0,
     slept |-> FALSE]

\* the lookup was made and the cache holds an entry for it afterwards
StepClean(key, r) ==
    r.lookup # "none" /\ r.cache.readable /\ key \in DOMAIN r.cache.entries

\* nothing has happened yet: quotaAt / authAt the combination at which the
\* primary fetch met the quota / an invalid-credential error (0: none),
\* clean and answered about the lookups of the first run, legLookups the
\* return-leg lookups of the current combination, delays / dualDelays the
\* sleeps of the main loop / the dual-fetch loop, dualUnits the units the
\* dual-fetch loop appended
NoHistory ==
    [quotaAt |-> 0, authAt |-> 0, clean |-> TRUE, answered |-> {},
     legLookups |-> 0, delays |-> 0, dualDelays |-> 0, dualUnits |-> 0]

Record(site, key, r, up) ==
    [hist EXCEPT
       !.quotaAt = IF @ = 0 /\ site = "primary" /\ r.lookup = "none" THEN i ELSE @,
       !.authAt = IF @ = 0 /\ site = "primary" /\ r.call = "error"
                     /\ HasInvalidApiKey(LowerError(up.error))
                  THEN i ELSE @,
       !.clean = @ /\ (run # "first" \/ StepClean(key, r)),
       !.answered = IF run = "first" /\ r.call = "answered" THEN @ \cup {key} ELSE @,
       !.legLookups = IF site = "primary" THEN 0
                      ELSE IF site = "return_leg" THEN @ + 1 ELSE @]

\* the processes; one that has not started: where it is, the usage dict and
\* the cache dict it has loaded, what it returns, whether it has written its
\* increment and its cache entry
Procs == {1, 2}
NoProcess ==
    [p \in Procs |-> [pc |-> "idle", usage |-> EmptyDict, cache |-> EmptyDict,
                      ret |-> NoResponse, incremented |-> FALSE, stored |-> FALSE]]

\* no function has been called directly
NoCall ==
    [name |-> "none", key |-> EmptyDict, arg |-> NoResponse, raised |-> "",
     ret |-> None, lookup |-> "none", call |-> "none", n |-> 0]

\* this month's count as the usage file holds it
PersistedCount ==
    IF usageFile # Missing /\ usageFile.month = today THEN usageFile.count ELSE 0

(***************************************************************************)
(* fetch_all                                                               *)
(***************************************************************************)
total == Len(combinations)

IndependentUnit(combo, out, ret) ==
    [tag |-> "independent",
     combo |-> [departure_id |-> combo.departure_id, arrival_id |-> combo.arrival_id,
                outbound_date |-> combo.outbound_date,
                return_date |-> combo.return_date],
     outbound_groups |-> out, return_groups |-> ret]

\* group["return_flights"] = return_group.get("flights", []) on all_groups[n]
Attach(response, n, return_group) ==
    LET nb == Len(response.best_flights)
    IN  IF n <= nb
        THEN [response EXCEPT !.best_flights[n].return_flights = return_group.id]
        ELSE [response EXCEPT !.other_flights[n - nb].return_flights = return_group.id]

\* all_groups[:5]
EnrichTop == 5
TopGroupsAll(response) == all_groups(response)
TopGroups(response) ==
    LET groups == all_groups(response)
    IN  SubSeq(groups, 1, IF Len(groups) < EnrichTop THEN Len(groups) ELSE EnrichTop)

\* the lookups one run of fetch_all makes at most: one per one-way combination,
\* four per round trip (primary, the return leg of the one group with a token,
\* the one-way pair) and four more on a busy route (five return legs), two per
\* distinct round-trip route and airline filter
Lookups(combos, filters) ==
    LET trips == {n \in 1..Len(combos) : IsRoundTrip(combos[n])}
        busy == {n \in trips : _expand_airports(combos[n].arrival_id) = BusyAirports}
        routes == {route_key(combos[n]) : n \in trips}
        prefs == SelectSeq(filters, LAMBDA f : f.filter_type = "at_least_one_leg_airline")
    IN  (Len(combos) - Cardinality(trips)) + 4 * Cardinality(trips)
          + 4 * Cardinality(busy) + 2 * Cardinality(routes) * Len(prefs)

\* the usage file is missing or of an earlier month: the whole quota is free
QuotaFree == usageFile = Missing \/ usageFile.month # today

\* fetch_all is entered with one of `lists` and one of `filters`
Start(lists, filters) ==
    /\ combinations \in lists
    /\ post_filters \in filters
    /\ NO_CACHE \in BOOLEAN
    /\ cacheWritable \in BOOLEAN
    /\ cacheFile \in {[readable |-> b, entries |-> EmptyDict] : b \in BOOLEAN}
    /\ NO_CACHE => cacheWritable /\ cacheFile.readable
    /\ today = "2026-03"
    /\ now = 0
    /\ usageFile \in
         {Missing, [month |-> "2026-02", count |-> SERPAPI_MONTHLY_LIMIT]}
         \cup {[month |-> "2026-03", count |-> c] :
                 c \in (SERPAPI_MONTHLY_LIMIT - MaxHeadroom)..SERPAPI_MONTHLY_LIMIT}
    /\ pc = "fetch_combination"
    /\ i = 1
    /\ raw = EmptyResponse
    /\ k = 1
    /\ outbound_groups = <<>>
    /\ results = <<>>
    /\ d = 1
    /\ a = 1
    /\ seen_routes = {}
    /\ run = "first"
    /\ firstResults = <<>>
    /\ usage0 = PersistedCount
    /\ ev = NoEvent
    /\ hist = NoHistory
    /\ cacheShape = "object"
    /\ op = NoCall
    /\ flights = <<>>
    /\ fpos = 1
    /\ parseFile = Missing
    /\ saved = NoSave
    /\ proc = NoProcess

Init ==
    /\ Start(CombinationLists, FilterLists)
    /\ QuotaFree => Lookups(combinations, post_filters) <= MaxLookups

\* fetch_all line 337: fetch_combination(combo, i, total) up to enrichment
FetchCombination ==
    /\ pc = "fetch_combination"
    /\ \E up \in Answers(_build_params(combinations[i])) :
         LET combo == combinations[i]
             r == fetch_combination(combo, up)
             key == _cache_key(_build_params(combo))
             enrich == /\ r.value.tag = "response"
                       /\ IsRoundTrip(combo)
                       /\ TopGroups(r.value) # <<>>
         IN  /\ raw' = r.value
             /\ usageFile' = r.usage
             /\ cacheFile' = r.cache
             /\ pc' = IF enrich THEN "enrich" ELSE "returned"
             /\ ev' = Event("primary", key, r, up)
             /\ hist' = Record("primary", key, r, up)
    /\ k' = 1
    /\ UNCHANGED outside
    /\ UNCHANGED <<combinations, post_filters, NO_CACHE, cacheWritable, today, now,
                   i, outbound_groups, results, d, a, seen_routes, run,
                   firstResults, usage0>>

\* _enrich_return_legs: one iteration of `for group in all_groups[:5]`
EnrichReturnLeg ==
    /\ pc = "enrich"
    /\ \E up \in Answers(Put(_build_params(combinations[i]), "departure_token",
                              TopGroups(raw)[k].departure_token)) :
         LET group == TopGroups(raw)[k]
             token == group.departure_token
             base == _build_params(combinations[i])
             key == _cache_key(Put(base, "departure_token", token))
             r == _lookup_return_group(base, token, up)
         IN  IF token = ""
             THEN /\ UNCHANGED <<raw, usageFile, cacheFile, hist>>
                  /\ ev' = NoEvent
             ELSE /\ raw' = IF r.value # NoGroup THEN Attach(raw, k, r.value) ELSE raw
                  /\ usageFile' = r.usage
                  /\ cacheFile' = r.cache
                  /\ ev' = Event("return_leg", key, r, up)
                  /\ hist' = Record("return_leg", key, r, up)
    /\ k' = k + 1
    /\ pc' = IF k + 1 <= Len(TopGroups(raw)) THEN "enrich" ELSE "returned"
    /\ UNCHANGED outside
    /\ UNCHANGED <<combinations, post_filters, NO_CACHE, cacheWritable, today, now,
                   i, outbound_groups, results, d, a, seen_routes, run,
                   firstResults, usage0>>

\* fetch_all line 390: a delay follows every combination but the last
DelayAlways == TRUE
DelayDue == i < total

\* fetch_all lines 338-345 and 390: append the response, break on the fatal
\* sentinel, go on to the one-way pair or to the end of the iteration
AppendRaw ==
    /\ pc = "returned"
    /\ results' = Append(results, raw)
    /\ pc' = IF IsFatal(raw) THEN "dual"
             ELSE IF IsRoundTrip(combinations[i]) THEN "one_way_out"
             ELSE IF DelayDue THEN "sleep" ELSE "dual"
    /\ ev' = NoEvent
    /\ UNCHANGED outside
    /\ UNCHANGED <<combinations, post_filters, NO_CACHE, cacheWritable, today, now,
                   usageFile, cacheFile, i, raw, k, outbound_groups, d, a,
                   seen_routes, run, firstResults, usage0, hist>>

\* fetch_all line 375
OneWayOut ==
    /\ pc = "one_way_out"
    /\ \E up \in Answers(outbound_params(combinations[i])) :
         LET params == outbound_params(combinations[i])
             r == _fetch_one_way_groups(params, up)
         IN  /\ outbound_groups' = r.value
             /\ usageFile' = r.usage
             /\ cacheFile' = r.cache
             /\ ev' = Event("one_way", _cache_key(params), r, up)
             /\ hist' = Record("one_way", _cache_key(params), r, up)
    /\ pc' = "one_way_ret"
    /\ UNCHANGED outside
    /\ UNCHANGED <<combinations, post_filters, NO_CACHE, cacheWritable, today, now,
                   i, raw, k, results, d, a, seen_routes, run, firstResults, usage0>>

\* fetch_all lines 376-390
OneWayRet ==
    /\ pc = "one_way_ret"
    /\ \E up \in Answers(return_params(combinations[i])) :
         LET combo == combinations[i]
             params == return_params(combo)
             r == _fetch_one_way_groups(params, up)
         IN  /\ results' = Append(results, IndependentUnit(combo, outbound_groups, r.value))
             /\ usageFile' = r.usage
             /\ cacheFile' = r.cache
             /\ ev' = Event("one_way", _cache_key(params), r, up)
             /\ hist' = Record("one_way", _cache_key(params), r, up)
    /\ outbound_groups' = <<>>
    /\ pc' = IF DelayDue THEN "sleep" ELSE "dual"
    /\ UNCHANGED outside
    /\ UNCHANGED <<combinations, post_filters, NO_CACHE, cacheWritable, today, now,
                   i, raw, k, d, a, seen_routes, run, firstResults, usage0>>

\* fetch_all lines 390-391 and the next iteration of the main loop
Sleep ==
    /\ pc = "sleep"
    /\ i' = i + 1
    /\ pc' = "fetch_combination"
    /\ ev' = SleepEvent
    /\ hist' = [hist EXCEPT !.delays = @ + 1]
    /\ UNCHANGED outside
    /\ UNCHANGED <<combinations, post_filters, NO_CACHE, cacheWritable, today, now,
                   usageFile, cacheFile, raw, k, outbound_groups, results, d, a,
                   seen_routes, run, firstResults, usage0>>

\* fetch_all lines 397-412: the guard of the dual-fetch phase and the head of
\* `for combo in combinations`
DualNext ==
    /\ pc = "dual"
    /\ IF airline_filters = <<>> \/ d > total
       THEN /\ pc' = "done"
            /\ UNCHANGED <<d, a, seen_routes>>
       ELSE LET combo == combinations[d]
            IN  IF \/ route_key(combo) \in seen_routes
                   \/ combo.type # 1
                   \/ combo.return_date = None
                THEN /\ pc' = "dual"
                     /\ d' = d + 1
                     /\ UNCHANGED <<a, seen_routes>>
                ELSE /\ pc' = "dual_out"
                     /\ seen_routes' = seen_routes \cup {route_key(combo)}
                     /\ a' = 1
                     /\ d' = d
    /\ ev' = NoEvent
    /\ UNCHANGED outside
    /\ UNCHANGED <<combinations, post_filters, NO_CACHE, cacheWritable, today, now,
                   usageFile, cacheFile, i, raw, k, outbound_groups, results, run,
                   firstResults, usage0, hist>>

\* fetch_all line 442: out_g
DualOut ==
    /\ pc = "dual_out"
    /\ \E up \in Answers(out_p(combinations[d], Iata(airline_filters[a].value))) :
         LET params == out_p(combinations[d], Iata(airline_filters[a].value))
             r == _fetch_one_way_groups(params, up)
         IN  /\ outbound_groups' = r.value
             /\ usageFile' = r.usage
             /\ cacheFile' = r.cache
             /\ ev' = Event("dual_fetch", _cache_key(params), r, up)
             /\ hist' = Record("dual_fetch", _cache_key(params), r, up)
    /\ pc' = "dual_ret"
    /\ UNCHANGED outside
    /\ UNCHANGED <<combinations, post_filters, NO_CACHE, cacheWritable, today, now,
                   i, raw, k, results, d, a, seen_routes, run, firstResults, usage0>>

\* fetch_all lines 443-456: ret_g, the appended unit, the next airline filter
DualRet ==
    /\ pc = "dual_ret"
    /\ \E up \in Answers(ret_p(combinations[d], Iata(airline_filters[a].value))) :
         LET combo == combinations[d]
             params == ret_p(combo, Iata(airline_filters[a].value))
             r == _fetch_one_way_groups(params, up)
         IN  /\ results' = Append(results, IndependentUnit(combo, outbound_groups, r.value))
             /\ usageFile' = r.usage
             /\ cacheFile' = r.cache
             /\ ev' = Event("dual_fetch", _cache_key(params), r, up)
             /\ hist' = [Record("dual_fetch", _cache_key(params), r, up)
                           EXCEPT !.dualUnits = @ + 1]
    /\ outbound_groups' = <<>>
    /\ IF a < Len(airline_filters)
       THEN a' = a + 1 /\ pc' = "dual_out"
       ELSE a' = a /\ pc' = "dual_sleep"
    /\ UNCHANGED outside
    /\ UNCHANGED <<combinations, post_filters, NO_CACHE, cacheWritable, today, now,
                   i, raw, k, d, seen_routes, run, firstResults, usage0>>

\* fetch_all line 458 and the next iteration of the dual-fetch loop
DualSleep ==
    /\ pc = "dual_sleep"
    /\ d' = d + 1
    /\ pc' = "dual"
    /\ ev' = SleepEvent
    /\ hist' = [hist EXCEPT !.dualDelays = @ + 1]
    /\ UNCHANGED outside
    /\ UNCHANGED <<combinations, post_filters, NO_CACHE, cacheWritable, today, now,
                   usageFile, cacheFile, i, raw, k, outbound_groups, results, a,
                   seen_routes, run, firstResults, usage0>>

\* fetch_all has returned `results`; some time later main calls it again
\* with the same arguments
NextRun ==
    /\ pc = "done"
    /\ run = "first"
    /\ \E dt \in ElapseChoices : now' = now + dt
    /\ run' = "second"
    /\ firstResults' = results
    /\ usage0' = PersistedCount
    /\ results' = <<>>
    /\ pc' = "fetch_combination"
    /\ i' = 1
    /\ raw' = EmptyResponse
    /\ k' = 1
    /\ outbound_groups' = <<>>
    /\ d' = 1
    /\ a' = 1
    /\ seen_routes' = {}
    /\ ev' = NoEvent
    /\ hist' = [NoHistory EXCEPT !.clean = hist.clean]
    /\ UNCHANGED outside
    /\ UNCHANGED <<combinations, post_filters, NO_CACHE, cacheWritable, today,
                   usageFile, cacheFile>>

Next ==
    \/ FetchCombination
    \/ EnrichReturnLeg
    \/ AppendRaw
    \/ OneWayOut
    \/ OneWayRet
    \/ Sleep
    \/ DualNext
    \/ DualOut
    \/ DualRet
    \/ DualSleep

\* one run of fetch_all
Spec == Init /\ [][Next]_vars

\* two runs of fetch_all on the same arguments
InitRerun ==
    /\ Init
    /\ Lookups(combinations, post_filters) <= MaxLookups
    /\ ~NO_CACHE
    /\ cacheWritable
    /\ cacheFile.readable
SpecRerun == InitRerun /\ [][Next \/ NextRun]_vars

\* fetch_all has returned `results`; some time later main is started again
\* with --no-cache and calls fetch_all with the same arguments
NextRunNoCache ==
    /\ pc = "done"
    /\ run = "first"
    /\ NO_CACHE' = TRUE
    /\ \E dt \in ElapseChoices : now' = now + dt
    /\ run' = "second"
    /\ firstResults' = results
    /\ usage0' = PersistedCount
    /\ results' = <<>>
    /\ pc' = "fetch_combination"
    /\ i' = 1
    /\ raw' = EmptyResponse
    /\ k' = 1
    /\ outbound_groups' = <<>>
    /\ d' = 1
    /\ a' = 1
    /\ seen_routes' = {}
    /\ ev' = NoEvent
    /\ hist' = [NoHistory EXCEPT !.clean = hist.clean]
    /\ UNCHANGED outside
    /\ UNCHANGED <<combinations, post_filters, cacheWritable, today,
                   usageFile, cacheFile>>

\* a run of fetch_all with the cache, then one with --no-cache
SpecNoCache == InitRerun /\ [][Next \/ NextRunNoCache]_vars

\* one run of fetch_all on the wider inputs
InitWide ==
    /\ Start(WideLists, WideFilterLists)
    /\ QuotaFree => Lookups(combinations, post_filters) <= MaxWideLookups
    /\ cacheWritable
    /\ cacheFile.readable
    /\ usageFile = Missing \/ PersistedCount >= SERPAPI_MONTHLY_LIMIT - 1
SpecWide == InitWide /\ [][Next]_vars

(***************************************************************************)
(* result_processor.py.  A raw group is here a dict with the keys the      *)
(* normalizer reads: flights (segments), price, total_duration,            *)
(* return_flights.  A FlightResult keeps the fields the dedup key, the     *)
(* prices, the post-filters and the ranking read.  ", ".join(names) and    *)
(* " / ".join(numbers) are the sequences joined, an Optional string built  *)
(* from an empty list (None) is <<>>, an Optional[int] None is NoneInt.    *)
(***************************************************************************)
NoneInt == -1
\* _process_flight_group / _extract_group_leg returning None
NoResult == [tag |-> "no_result"]

Seg(airline, flight_number, departs, arrives) ==
    [airline |-> airline, flight_number |-> flight_number,
     departure_airport |-> [time |-> departs],
     arrival_airport |-> [time |-> arrives]]

FlightGroup(segments, price, total_duration) ==
    [flights |-> segments, price |-> price, total_duration |-> total_duration]

\* for seg in segments: if airline and airline not in airlines: append
RECURSIVE airlines_of(_)
airlines_of(segments) ==
    IF segments = <<>>
    THEN <<>>
    ELSE LET airlines == airlines_of(SubSeq(segments, 1, Len(segments) - 1))
             airline == Get(segments[Len(segments)], "airline", "")
         IN  IF airline # "" /\ \A n \in 1..Len(airlines) : airlines[n] # airline
             THEN Append(airlines, airline)
             ELSE airlines

\* for seg in segments: if fn: flight_numbers.append(fn)
flight_numbers_of(segments) ==
    SelectSeq([n \in 1..Len(segments) |-> Get(segments[n], "flight_number", "")],
              LAMBDA fn : fn # "")

\* _process_flight_group
_process_flight_group(group) ==
    LET segments == Get(group, "flights", <<>>)
        first == segments[1]
        last == segments[Len(segments)]
        return_segments == Get(group, "return_flights", <<>>)
        return_first == return_segments[1]
        return_last == return_segments[Len(return_segments)]
        outbound_price == Get(group, "price", NoneInt)
    IN  IF segments = <<>>
        THEN NoResult
        ELSE [itinerary_type |-> "round_trip",
              airline |-> airlines_of(segments),
              flight_numbers |-> flight_numbers_of(segments),
              depart_time |-> first.departure_airport.time,
              arrive_time |-> last.arrival_airport.time,
              return_depart_time |->
                  IF return_segments # <<>>
                  THEN return_first.departure_airport.time ELSE None,
              return_arrive_time |->
                  IF return_segments # <<>>
                  THEN return_last.arrival_airport.time ELSE None,
              total_duration_mins |-> Get(group, "total_duration", 0),
              return_total_duration_mins |->
                  Get(group, "return_total_duration", NoneInt),
              price |-> IF outbound_price = NoneInt THEN 0 ELSE outbound_price,
              outbound_price |-> outbound_price,
              return_price |-> NoneInt,
              total_price |-> outbound_price,
              return_flight_numbers |-> flight_numbers_of(return_segments),
              return_airline |-> airlines_of(return_segments),
              preferred |-> FALSE]

\* _extract_group_leg
_extract_group_leg(group) ==
    LET segments == Get(group, "flights", <<>>)
        first == segments[1]
        last == segments[Len(segments)]
    IN  IF segments = <<>>
        THEN NoResult
        ELSE [airline |-> airlines_of(segments),
              flight_numbers |-> flight_numbers_of(segments),
              depart_time |-> first.departure_airport.time,
              arrive_time |-> last.arrival_airport.time,
              duration |-> Get(group, "total_duration", 0),
              price |-> Get(group, "price", 0)]

\* _build_independent_pairs: outbound_groups[:3] and return_groups[:3]
PairTop == 3
top_all(groups) == groups
top_three(groups) ==
    SubSeq(groups, 1, IF Len(groups) < PairTop THEN Len(groups) ELSE PairTop)

\* _build_independent_pairs: total_price of a pair
pair_price_outbound(out_leg, ret_leg) == out_leg.price
pair_price(out_leg, ret_leg) == out_leg.price + ret_leg.price

\* _build_independent_pairs: the FlightResult of one pair
Pair(out_leg, ret_leg) ==
    [itinerary_type |-> "independent_one_way",
     airline |-> out_leg.airline,
     flight_numbers |-> out_leg.flight_numbers,
     depart_time |-> out_leg.depart_time,
     arrive_time |-> out_leg.arrive_time,
     return_depart_time |-> ret_leg.depart_time,
     return_arrive_time |-> ret_leg.arrive_time,
     total_duration_mins |-> out_leg.duration,
     return_total_duration_mins |-> ret_leg.duration,
     price |-> pair_price(out_leg, ret_leg),
     outbound_price |-> out_leg.price,
     return_price |-> ret_leg.price,
     total_price |-> pair_price(out_leg, ret_leg),
     return_flight_numbers |-> ret_leg.flight_numbers,
     return_airline |-> ret_leg.airline,
     preferred |-> FALSE]

\* _build_independent_pairs: the two loops skip the groups without segments
\* and append one pair per remaining (out_g, ret_g), outbound first
_build_independent_pairs(response) ==
    LET HasLeg(group) == _extract_group_leg(group) # NoResult
        top_out == SelectSeq(top_three(response.outbound_groups), HasLeg)
        top_ret == SelectSeq(top_three(response.return_groups), HasLeg)
    IN  [n \in 1..(Len(top_out) * Len(top_ret)) |->
           Pair(_extract_group_leg(top_out[((n - 1) \div Len(top_ret)) + 1]),
                _extract_group_leg(top_ret[((n - 1) % Len(top_ret)) + 1]))]

\* process_results: dedup_key, the five fields the f-string formats
dedup_key(result) ==
    <<result.itinerary_type, result.flight_numbers, result.depart_time,
      result.return_flight_numbers, result.return_depart_time>>

\* process_results: the results one response gives before deduplication
Candidates(response) ==
    IF response.tag = "empty"
    THEN <<>>
    ELSE IF response.tag = "independent"
    THEN _build_independent_pairs(response)
    ELSE IF response.tag = "response"
    THEN SelectSeq([n \in 1..Len(all_groups(response)) |->
                       _process_flight_group(all_groups(response)[n])],
                   LAMBDA result : result # NoResult)
    ELSE <<>>

\* process_results: `if dedup_key in seen: continue`, else add and append
RECURSIVE KeepEvery(_, _)
KeepEvery(acc, candidates) ==
    IF candidates = <<>>
    THEN acc
    ELSE KeepEvery([seen |-> acc.seen \cup {dedup_key(Head(candidates))},
                    results |-> Append(acc.results, Head(candidates))],
                   Tail(candidates))
RECURSIVE KeepUntilSeen(_, _)
KeepUntilSeen(acc, candidates) ==
    IF candidates = <<>> \/ dedup_key(Head(candidates)) \in acc.seen
    THEN acc
    ELSE KeepUntilSeen([seen |-> acc.seen \cup {dedup_key(Head(candidates))},
                        results |-> Append(acc.results, Head(candidates))],
                       Tail(candidates))
RECURSIVE KeepNew(_, _)
KeepNew(acc, candidates) ==
    IF candidates = <<>>
    THEN acc
    ELSE LET result == Head(candidates)
         IN  KeepNew(IF dedup_key(result) \in acc.seen
                     THEN acc
                     ELSE [seen |-> acc.seen \cup {dedup_key(result)},
                           results |-> Append(acc.results, result)],
                     Tail(candidates))

\* process_results: `for response in raw_responses`
RECURSIVE ProcessFrom(_, _)
ProcessFrom(acc, responses) ==
    IF responses = <<>>
    THEN acc
    ELSE ProcessFrom(KeepNew(acc, Candidates(Head(responses))), Tail(responses))

process_results(raw_responses) ==
    ProcessFrom([seen |-> {}, results |-> <<>>], raw_responses).results

\* str.lower() on the airline names and filter values of the model
Lower(text) ==
    IF text = "Frontier" THEN "frontier"
    ELSE IF text = "Spirit" THEN "spirit"
    ELSE IF text = "United" THEN "united"
    ELSE IF text = "Unit" THEN "unit"
    ELSE text
\* needle in (joined or "").lower(): of the lower-case strings of the model
\* "unit" is inside "united", every needle inside itself, and no needle
\* spans two names
NeedleIn(needle, names) ==
    \E n \in 1..Len(names) :
       \/ needle = Lower(names[n])
       \/ needle = "unit" /\ Lower(names[n]) = "united"

\* _airline_matches
_airline_matches(r, needle, leg) ==
    LET out_match == NeedleIn(needle, r.airline)
        ret_match == NeedleIn(needle, r.return_airline)
    IN  IF leg = "outbound" THEN out_match
        ELSE IF leg = "return" THEN ret_match
        ELSE out_match \/ ret_match

\* apply_post_filters, at_least_one_leg_airline
prefer_only(list, pf) ==
    LET preferred == SelectSeq(list,
                        LAMBDA r : _airline_matches(r, Lower(pf.value), pf.leg))
    IN  [n \in 1..Len(preferred) |-> [preferred[n] EXCEPT !.preferred = TRUE]]
prefer(list, pf) ==
    LET needle == Lower(pf.value)
        preferred == SelectSeq(list, LAMBDA r : _airline_matches(r, needle, pf.leg))
        others == SelectSeq(list, LAMBDA r : ~_airline_matches(r, needle, pf.leg))
    IN  [n \in 1..Len(preferred) |-> [preferred[n] EXCEPT !.preferred = TRUE]]
          \o others

\* datetime.fromisoformat: the strings it parses, as seconds from
\* 2026-03-30T08:00; on any other string it raises ValueError
IsoSeconds ==
    [x \in {"2026-03-29 20:00", "2026-03-30 07:00", "2026-03-30 08:00:00",
            "2026-03-30T08:00", "2026-03-30 08:00:01", "2026-04-02 21:00",
            "2026-04-02T21:00", "2026-04-03 00:30"} |->
       CASE x = "2026-03-29 20:00" -> -43200
         [] x = "2026-03-30 07:00" -> -3600
         [] x = "2026-03-30 08:00:00" -> 0
         [] x = "2026-03-30T08:00" -> 0
         [] x = "2026-03-30 08:00:01" -> 1
         [] x = "2026-04-02 21:00" -> 306000
         [] x = "2026-04-02T21:00" -> 306000
         [] x = "2026-04-03 00:30" -> 318600]
Parses(text) == text \in DOMAIN IsoSeconds
fromisoformat(text) == IsoSeconds[text]

\* apply_post_filters, arrival_before: arr > deadline
LateOrOnTime(arr, deadline) == arr >= deadline
Late(arr, deadline) == arr > deadline

\* apply_post_filters, arrival_before: `keep` of one result
keep(r, leg, deadline) ==
    LET out_late == /\ leg \in {"outbound", "any"}
                    /\ r.arrive_time # ""
                    /\ Parses(r.arrive_time)
                    /\ Late(fromisoformat(r.arrive_time), deadline)
        ret_late == /\ leg \in {"return", "any"}
                    /\ r.return_arrive_time # None
                    /\ r.return_arrive_time # ""
                    /\ Parses(r.return_arrive_time)
                    /\ Late(fromisoformat(r.return_arrive_time), deadline)
    IN  ~out_late /\ ~ret_late

\* apply_post_filters, arrival_before: an invalid deadline skips the filter
arrival_before_drop(list, pf) ==
    SelectSeq(list, LAMBDA r : /\ Parses(pf.value)
                               /\ Parses(r.arrive_time)
                               /\ keep(r, pf.leg, fromisoformat(pf.value)))
arrival_before(list, pf) ==
    IF ~Parses(pf.value)
    THEN list
    ELSE SelectSeq(list, LAMBDA r : keep(r, pf.leg, fromisoformat(pf.value)))

\* apply_post_filters: one iteration of `for pf in post_filters`
apply_post_filter(list, pf) ==
    IF pf.filter_type = "at_least_one_leg_airline"
    THEN prefer(list, pf)
    ELSE IF pf.filter_type = "arrival_before"
    THEN arrival_before(list, pf)
    ELSE list

\* Python's order of the departure and arrival strings of the model
TextRank ==
    [x \in {"2026-03-29 18:00", "2026-03-29 22:00", "2026-03-29 23:00",
            "2026-03-29 23:30", "2026-03-30 07:00", "2026-03-30 08:00:00",
            "2026-03-30 08:00:01", "8:00 AM"} |->
       CASE x = "2026-03-29 18:00" -> 1
         [] x = "2026-03-29 22:00" -> 2
         [] x = "2026-03-29 23:00" -> 3
         [] x = "2026-03-29 23:30" -> 4
         [] x = "2026-03-30 07:00" -> 5
         [] x = "2026-03-30 08:00:00" -> 6
         [] x = "2026-03-30 08:00:01" -> 7
         [] x = "8:00 AM" -> 8]

\* sort_results: the key of one result.  Of the preferences of the model
\* "duration" contains "duration", "departure_time" contains "departure",
\* "arrival_time" contains "arrival", and "price" none of the words tested
sort_key(r, pref) ==
    IF pref = "duration"
    THEN r.total_duration_mins
         + (IF r.return_total_duration_mins = NoneInt THEN 0
            ELSE r.return_total_duration_mins)
    ELSE IF pref = "departure_time" THEN TextRank[r.depart_time]
    ELSE IF pref = "arrival_time" THEN TextRank[r.arrive_time]
    ELSE IF r.total_price # NoneInt THEN r.total_price ELSE r.price

\* sort_results: sorted(results, key=...), which is stable
RECURSIVE sort_results(_, _)
sort_results(list, pref) ==
    IF list = <<>>
    THEN <<>>
    ELSE LET rest == sort_results(Tail(list), pref)
             before == Cardinality({n \in 1..Len(rest) :
                          sort_key(rest[n], pref) < sort_key(Head(list), pref)})
         IN  SubSeq(rest, 1, before) \o <<Head(list)>>
               \o SubSeq(rest, before + 1, Len(rest))

(***************************************************************************)
(* The usage and cache functions called one at a time                      *)
(***************************************************************************)
\* one-way combinations: fetch_combination makes no return-leg lookup
FileCombos == {Combos.OneWay, Combos.OneWayWindow}

\* how a call ended
Returned(name, key, arg, ret) ==
    [name |-> name, key |-> key, arg |-> arg, raised |-> "", ret |-> ret,
     lookup |-> "none", call |-> "none", n |-> op.n + 1]
Raised(name, key, arg, exception) ==
    [name |-> name, key |-> key, arg |-> arg, raised |-> exception, ret |-> None,
     lookup |-> "none", call |-> "none", n |-> op.n + 1]

\* the usage or cache files as the functions can find them
InitFiles ==
    /\ NO_CACHE \in BOOLEAN
    /\ cacheWritable \in BOOLEAN
    /\ cacheFile \in {[readable |-> b, entries |-> EmptyDict] : b \in BOOLEAN}
    /\ cacheShape \in {"object", "array", "not_utf8"}
    /\ cacheShape # "object" => cacheFile.readable
    /\ today = "2026-03"
    /\ now = 0
    /\ usageFile \in
         {Missing, NotJson,
          [month |-> "2026-02", count |-> SERPAPI_MONTHLY_LIMIT],
          [month |-> "2026-03"], [month |-> "2026-02"], [count |-> 7]}
         \cup {[month |-> "2026-03", count |-> c] :
                 c \in (SERPAPI_MONTHLY_LIMIT - MaxHeadroom)..SERPAPI_MONTHLY_LIMIT}
    /\ combinations = <<>>
    /\ post_filters = <<>>
    /\ pc = "files"
    /\ i = 1
    /\ raw = EmptyResponse
    /\ k = 1
    /\ outbound_groups = <<>>
    /\ results = <<>>
    /\ d = 1
    /\ a = 1
    /\ seen_routes = {}
    /\ run = "first"
    /\ firstResults = <<>>
    /\ usage0 = 0
    /\ ev = NoEvent
    /\ hist = NoHistory
    /\ op = NoCall
    /\ flights = <<>>
    /\ fpos = 1
    /\ parseFile = Missing
    /\ saved = NoSave
    /\ proc = NoProcess

\* what no usage or cache function touches
notFiles ==
    <<combinations, post_filters, NO_CACHE, cacheWritable, pc, i, raw, k,
      outbound_groups, results, d, a, seen_routes, run, firstResults, usage0,
      ev, hist, cacheShape, flights, fpos,
      parseFile,
      saved,
      proc>>

\* get_monthly_usage()
CallGetMonthlyUsage ==
    /\ pc = "files"
    /\ op.n < MaxCalls
    /\ op' = IF HasCount(_load_usage)
             THEN Returned("get_monthly_usage", EmptyDict, NoResponse, get_monthly_usage)
             ELSE Raised("get_monthly_usage", EmptyDict, NoResponse, "KeyError")
    /\ UNCHANGED <<notFiles, today, now, usageFile, cacheFile>>

\* _increment_usage()
CallIncrementUsage ==
    /\ pc = "files"
    /\ op.n < MaxCalls
    /\ IF HasCount(_load_usage)
       THEN /\ usageFile' = _increment_usage
            /\ op' = Returned("_increment_usage", EmptyDict, NoResponse,
                              _increment_usage.count)
       ELSE /\ usageFile' = usageFile
            /\ op' = Raised("_increment_usage", EmptyDict, NoResponse, "KeyError")
    /\ UNCHANGED <<notFiles, today, now, cacheFile>>

\* _cache_lookup(params)
CallCacheLookup ==
    /\ pc = "files"
    /\ op.n < MaxCalls
    /\ \E combo \in FileCombos :
         LET params == _build_params(combo)
             key == _cache_key(params)
         IN  op' = IF NO_CACHE
                   THEN Returned("_cache_lookup", key, NoResponse, NoResponse)
                   ELSE IF cacheFile.readable /\ cacheShape = "not_utf8"
                   THEN Raised("_cache_lookup", key, NoResponse, "UnicodeDecodeError")
                   ELSE IF ~LoadedDict
                   THEN Raised("_cache_lookup", key, NoResponse, "AttributeError")
                   ELSE Returned("_cache_lookup", key, NoResponse, _cache_lookup(params))
    /\ UNCHANGED <<notFiles, today, now, usageFile, cacheFile>>

\* _cache_store(params, response)
CallCacheStore ==
    /\ pc = "files"
    /\ op.n < MaxCalls
    /\ \E combo \in FileCombos, response \in Bodies :
         LET params == _build_params(combo)
             key == _cache_key(params)
         IN  IF NO_CACHE
             THEN /\ op' = Returned("_cache_store", key, response, None)
                  /\ cacheFile' = cacheFile
             ELSE IF cacheFile.readable /\ cacheShape = "not_utf8"
             THEN /\ op' = Raised("_cache_store", key, response, "UnicodeDecodeError")
                  /\ cacheFile' = cacheFile
             ELSE IF ~LoadedDict
             THEN /\ op' = Raised("_cache_store", key, response, "TypeError")
                  /\ cacheFile' = cacheFile
             ELSE /\ op' = Returned("_cache_store", key, response, None)
                  /\ cacheFile' = _cache_store(params, response)
    /\ UNCHANGED <<notFiles, today, now, usageFile>>

\* fetch_combination(combo, 1, 1) on a one-way combination: usage["count"] and
\* _cache_lookup(params) come before the try block, whatever they raise
\* leaves the function
CallFetchCombination ==
    /\ pc = "files"
    /\ op.n < MaxCalls
    /\ \E combo \in FileCombos :
         \E up \in Answers(_build_params(combo)) :
           LET key == _cache_key(_build_params(combo))
               r == fetch_combination(combo, up)
           IN  IF ~HasCount(_load_usage)
               THEN /\ op' = Raised("fetch_combination", key, NoResponse, "KeyError")
                    /\ UNCHANGED <<usageFile, cacheFile>>
               ELSE IF /\ ~LimitReached(_load_usage)
                       /\ ~NO_CACHE
                       /\ ~LoadedDict
               THEN /\ op' = Raised("fetch_combination", key, NoResponse,
                                    IF cacheShape = "not_utf8"
                                    THEN "UnicodeDecodeError" ELSE "AttributeError")
                    /\ UNCHANGED <<usageFile, cacheFile>>
               ELSE /\ op' = [Returned("fetch_combination", key, NoResponse, r.value)
                               EXCEPT !.lookup = r.lookup, !.call = r.call]
                    /\ usageFile' = r.usage
                    /\ cacheFile' = r.cache
    /\ UNCHANGED <<notFiles, today, now>>

\* the calendar month changes between two calls
Rollover ==
    /\ pc = "files"
    /\ today = "2026-03"
    /\ today' = "2026-04"
    /\ UNCHANGED <<notFiles, now, usageFile, cacheFile, op>>

\* the usage and cache functions called in any order
SpecFiles ==
    /\ InitFiles
    /\ [][\/ CallGetMonthlyUsage
          \/ CallIncrementUsage
          \/ CallCacheLookup
          \/ CallCacheStore
          \/ CallFetchCombination
          \/ Rollover]_vars

(***************************************************************************)
(* main, steps 6 and 6b: process_results and apply_post_filters            *)
(***************************************************************************)
\* raw groups.  Outbound: A a nonstop arriving exactly at 08:00, B one arriving
\* a second later, C a connection without a price, D a group without
\* segments, E a segment without flight number whose arrival time does not
\* parse, A2 is A at another price, Ar is A with its return leg.  Return: RA,
\* RB without a price, RC without an arrival time
Groups ==
    [A |-> FlightGroup(<<Seg("Frontier", "F9 100", "2026-03-29 22:00",
                             "2026-03-30 08:00:00")>>, 120, 600),
     B |-> FlightGroup(<<Seg("Spirit", "NK 7", "2026-03-29 23:00",
                             "2026-03-30 08:00:01")>>, 90, 540),
     C |-> Pop(FlightGroup(<<Seg("United", "UA 1", "2026-03-29 18:00",
                                 "2026-03-29 20:00"),
                             Seg("Frontier", "F9 2", "2026-03-29 21:00",
                                 "2026-03-30 07:00")>>, 0, 780), "price"),
     D |-> FlightGroup(<<>>, 50, 0),
     E |-> FlightGroup(<<Seg("Spirit", "", "2026-03-29 23:30", "8:00 AM")>>, 75, 510),
     A2 |-> FlightGroup(<<Seg("Frontier", "F9 100", "2026-03-29 22:00",
                              "2026-03-30 08:00:00")>>, 130, 600),
     Ar |-> Put(FlightGroup(<<Seg("Frontier", "F9 100", "2026-03-29 22:00",
                                  "2026-03-30 08:00:00")>>, 200, 600),
                "return_flights",
                <<Seg("Spirit", "NK 8", "2026-04-02 18:00", "2026-04-02 21:00")>>),
     RA |-> FlightGroup(<<Seg("Spirit", "NK 8", "2026-04-02 18:00",
                              "2026-04-02 21:00")>>, 80, 180),
     RB |-> Pop(FlightGroup(<<Seg("Frontier", "F9 9", "2026-04-02 19:00",
                                  "2026-04-03 00:30")>>, 0, 330), "price"),
     RC |-> FlightGroup(<<Seg("United", "UA 2", "2026-04-02 20:00", "")>>, 60, 200)]

Unit(out, ret) == IndependentUnit(Combos.RoundTrip, out, ret)

\* lists of responses fetch_all can return, and pair units with more than
\* three groups on a side
RawLists ==
    LET SmallPool ==
            { EmptyResponse,
              Body(<<Groups.A, Groups.B>>, <<Groups.C>>),
              Body(<<Groups.A2>>, <<Groups.D, Groups.Ar>>),
              Body(<<Groups.E>>, <<Groups.A, Groups.A>>),
              Unit(<<Groups.A, Groups.B>>, <<Groups.RA>>),
              Unit(<<Groups.A2, Groups.A>>, <<Groups.RA, Groups.RA>>),
              Unit(<<>>, <<Groups.RA>>),
              Unit(<<Groups.C>>, <<>>) }
    IN
    UNION {[1..n -> SmallPool] : n \in 1..MaxResponses}
    \cup { <<Unit(<<Groups.A, Groups.D, Groups.B, Groups.C>>,
                  <<Groups.RA, Groups.RB, Groups.D, Groups.RC>>)>>,
           <<Unit(<<Groups.A, Groups.B, Groups.C, Groups.E, Groups.A2>>,
                  <<Groups.RA, Groups.RB, Groups.RC, Groups.E>>)>> }

\* what main leaves alone from step 6 on
notMain ==
    <<combinations, post_filters, NO_CACHE, cacheWritable, today, now, usageFile,
      cacheFile, i, raw, k, outbound_groups, results, d, a, seen_routes, run,
      firstResults, usage0, ev, hist, cacheShape, op,
      parseFile,
      saved,
      proc>>

\* fetch_all has returned `lists` member `results`; parsed.post_filters is
\* one of `filters`
Fetched(lists, filters) ==
    /\ results \in lists
    /\ post_filters \in filters
    /\ pc = "process_results"
    /\ flights = <<>>
    /\ fpos = 1
    /\ combinations = <<Combos.RoundTrip>>
    /\ NO_CACHE = FALSE
    /\ cacheWritable = TRUE
    /\ cacheFile = CacheFile(EmptyDict)
    /\ cacheShape = "object"
    /\ today = "2026-03"
    /\ now = 0
    /\ usageFile = Missing
    /\ i = 1
    /\ raw = EmptyResponse
    /\ k = 1
    /\ outbound_groups = <<>>
    /\ d = 1
    /\ a = 1
    /\ seen_routes = {}
    /\ run = "first"
    /\ firstResults = <<>>
    /\ usage0 = 0
    /\ ev = NoEvent
    /\ hist = NoHistory
    /\ op = NoCall
    /\ parseFile = Missing
    /\ saved = NoSave
    /\ proc = NoProcess

\* main lines 107-112, 115
ProcessResults ==
    /\ pc = "process_results"
    /\ LET processed == process_results(results)
       IN  /\ flights' = processed
           /\ pc' = IF processed = <<>> THEN "exit"
                    ELSE IF post_filters # <<>> THEN "apply_post_filters"
                    ELSE "sort_results"
    /\ fpos' = 1
    /\ UNCHANGED notMain

\* apply_post_filters: one iteration of `for pf in post_filters`; after the
\* last one main lines 118-121
ApplyPostFilter ==
    /\ pc = "apply_post_filters"
    /\ LET filtered == apply_post_filter(flights, post_filters[fpos])
       IN  /\ flights' = filtered
           /\ pc' = IF fpos < Len(post_filters) THEN "apply_post_filters"
                    ELSE IF filtered = <<>> THEN "exit"
                    ELSE "sort_results"
    /\ fpos' = fpos + 1
    /\ UNCHANGED notMain

\* main line 123: results = sort_results(results, parsed.ranking_preference)
SortResults ==
    /\ pc = "sort_results"
    /\ \E ranking_preference \in {"price", "duration", "departure_time",
                                  "arrival_time"} :
         flights' = sort_results(flights, ranking_preference)
    /\ pc' = "export"
    /\ UNCHANGED <<notMain, fpos>>

\* process_results on the lists fetch_all can return
SpecNormalize == Fetched(RawLists, {<<>>}) /\ [][ProcessResults]_vars

\* the post-filters a query can ask for
PostFilterLists ==
    {<<filter>> : filter \in
        { PostFilter("arrival_before", "2026-03-30T08:00", "outbound"),
          PostFilter("arrival_before", "2026-04-02T21:00", "return"),
          PostFilter("arrival_before", "2026-04-02T21:00", "any"),
          PostFilter("arrival_before", "2026-03-30T08:00", "any"),
          PostFilter("arrival_before", "tomorrow 8am", "any"),
          PostFilter("at_least_one_leg_airline", "Frontier", "any"),
          PostFilter("at_least_one_leg_airline", "Unit", "outbound"),
          PostFilter("at_least_one_leg_airline", "Spirit", "return") }}
    \cup { <<PostFilter("at_least_one_leg_airline", "Frontier", "any"),
             PostFilter("at_least_one_leg_airline", "Spirit", "return")>>,
           <<PostFilter("at_least_one_leg_airline", "Spirit", "return"),
             PostFilter("arrival_before", "2026-04-02T21:00", "any")>>,
           <<PostFilter("arrival_before", "2026-03-30T08:00", "outbound"),
             PostFilter("at_least_one_leg_airline", "Unit", "outbound")>>,
           <<PostFilter("arrival_before", "tomorrow 8am", "any"),
             PostFilter("arrival_before", "2026-03-30T08:00", "outbound")>>,
           <<PostFilter("arrival_before", "8am", "outbound"),
             PostFilter("at_least_one_leg_airline", "Frontier", "any")>> }
\* lists whose results differ in airline, arrival time and return leg
FilterRawLists ==
    { <<Body(<<Groups.A, Groups.B>>, <<Groups.C>>)>>,
      <<Body(<<Groups.E>>, <<Groups.Ar, Groups.B>>)>>,
      <<Body(<<Groups.C, Groups.B, Groups.A>>, <<Groups.Ar>>)>>,
      <<Unit(<<Groups.A, Groups.B>>, <<Groups.RA, Groups.RB>>)>>,
      <<Unit(<<Groups.B, Groups.C>>, <<Groups.RC, Groups.RA>>)>>,
      <<Body(<<Groups.B, Groups.A>>, <<>>), Unit(<<Groups.C>>, <<Groups.RB, Groups.RA>>)>>,
      <<Unit(<<Groups.E, Groups.A>>, <<Groups.RA>>), Body(<<Groups.Ar>>, <<Groups.C>>)>> }

\* process_results, then apply_post_filters, then sort_results
SpecPostFilter ==
    /\ Fetched(FilterRawLists, PostFilterLists)
    /\ [][\/ ProcessResults
          \/ ApplyPostFilter
          \/ SortResults]_vars

(***************************************************************************)
(* llm_parser.py: the persisted parse.  A ParsedQuery and its model_dump   *)
(* are the dict of its four fields; the 16 hex digits of the query hash    *)
(* are the stripped text itself (collision-free).                          *)
(***************************************************************************)
\* str.strip on the query texts of the model
StripText(text) ==
    IF text = "round trip from SFO to JFK " THEN "round trip from SFO to JFK"
    ELSE text
QueryTexts ==
    {"round trip from SFO to JFK", "round trip from SFO to JFK ", "different query"}
_query_hash(text) == StripText(text)

\* ParsedQuery(...)
ParsedQueries ==
    { [combinations |-> <<>>, ranking_preference |-> "price",
       query_summary |-> "SFO to JFK", post_filters |-> <<>>],
      [combinations |-> <<>>, ranking_preference |-> "price",
       query_summary |-> "New Parse", post_filters |-> <<>>],
      [combinations |-> <<Combos.OneWay>>, ranking_preference |-> "duration",
       query_summary |-> "AUS to LAX",
       post_filters |-> <<PostFilter("arrival_before", "2026-03-30T08:00", "any")>>] }

\* ParsedQuery.model_validate: combinations and query_summary are required,
\* the other two fields have defaults; NoParse stands for ValidationError
model_validate(data) ==
    IF {"combinations", "query_summary"} \subseteq DOMAIN data
    THEN [combinations |-> data.combinations,
          ranking_preference |-> Get(data, "ranking_preference", "price"),
          query_summary |-> data.query_summary,
          post_filters |-> Get(data, "post_filters", <<>>)]
    ELSE NoParse

\* _save_parse: the dict written to the file
_save_parse(parsed, query_text) ==
    [query_hash |-> _query_hash(query_text), timestamp |-> now, parsed |-> parsed]

\* _load_parse: the exception that leaves it ("" for none) and what it returns
_load_parse(query_text) ==
    IF parseFile \in {Missing, NotJson}
    THEN [raised |-> "", ret |-> NoParse]
    ELSE IF parseFile = NotObject
    THEN [raised |-> "AttributeError", ret |-> NoParse]
    ELSE IF Get(parseFile, "query_hash", None) # _query_hash(query_text)
    THEN [raised |-> "", ret |-> NoParse]
    ELSE IF "parsed" \notin DOMAIN parseFile
    THEN [raised |-> "", ret |-> NoParse]
    ELSE [raised |-> "", ret |-> model_validate(parseFile.parsed)]

notParse ==
    <<combinations, post_filters, NO_CACHE, cacheWritable, today, now, usageFile,
      cacheFile, pc, i, raw, k, outbound_groups, results, d, a, seen_routes, run,
      firstResults, usage0, ev, hist, cacheShape, flights, fpos, proc>>

\* the parse file as a run can find it: absent, or not as _save_parse wrote it
InitParse ==
    /\ parseFile \in
         {Missing, NotJson, NotObject,
          [query_hash |-> "different query"],
          [parsed |-> [combinations |-> <<>>, query_summary |-> "SFO to JFK"]],
          [query_hash |-> "different query", parsed |-> [combinations |-> <<>>]],
          [query_hash |-> "round trip from SFO to JFK", parsed |-> NotObject]}
    /\ saved = NoSave
    /\ op = NoCall
    /\ pc = "parse"
    /\ combinations = <<>>
    /\ post_filters = <<>>
    /\ NO_CACHE = FALSE
    /\ cacheWritable = TRUE
    /\ cacheFile = CacheFile(EmptyDict)
    /\ cacheShape = "object"
    /\ today = "2026-03"
    /\ now = 0
    /\ usageFile = Missing
    /\ i = 1
    /\ raw = EmptyResponse
    /\ k = 1
    /\ outbound_groups = <<>>
    /\ results = <<>>
    /\ d = 1
    /\ a = 1
    /\ seen_routes = {}
    /\ run = "first"
    /\ firstResults = <<>>
    /\ usage0 = 0
    /\ ev = NoEvent
    /\ hist = NoHistory
    /\ flights = <<>>
    /\ fpos = 1
    /\ proc = NoProcess

\* _save_parse(parsed, query_text): write_text raises OSError or writes
CallSaveParse ==
    /\ pc = "parse"
    /\ op.n < MaxCalls
    /\ \E parsed \in ParsedQueries, query_text \in QueryTexts, written \in BOOLEAN :
         /\ op' = [Returned("_save_parse", query_text, parsed, NoParse)
                     EXCEPT !.call = IF written THEN "written" ELSE "OSError"]
         /\ parseFile' = IF written THEN _save_parse(parsed, query_text)
                         ELSE parseFile
         /\ saved' = IF written
                     THEN [parsed |-> parsed, query_text |-> query_text,
                           n |-> op.n + 1]
                     ELSE saved
    /\ UNCHANGED notParse

\* _load_parse(query_text)
CallLoadParse ==
    /\ pc = "parse"
    /\ op.n < MaxCalls
    /\ \E query_text \in QueryTexts :
         LET load == _load_parse(query_text)
         IN  op' = IF load.raised # ""
                   THEN Raised("_load_parse", query_text, NoParse, load.raised)
                   ELSE Returned("_load_parse", query_text, NoParse, load.ret)
    /\ UNCHANGED <<notParse, parseFile, saved>>

\* parse_query(free_text, force=force).  client.responses.parse returns a
\* parse, returns no parse or raises; in the last two cases
\* client.beta.chat.completions.parse returns a parse, reports a refusal or
\* raises.  op.arg is what the model answered, op.lookup what _load_parse
\* did, op.call whether a request went out
CallParseQuery ==
    /\ pc = "parse"
    /\ op.n < MaxCalls
    /\ \E free_text \in QueryTexts, force \in BOOLEAN, written \in BOOLEAN,
          answer \in ParsedQueries \cup {NoParse} :
         LET load == _load_parse(free_text)
         IN  IF ~force /\ load.raised # ""
             THEN /\ op' = [Raised("parse_query", free_text, NoParse, load.raised)
                              EXCEPT !.lookup = "raised"]
                  /\ UNCHANGED <<parseFile, saved>>
             ELSE IF ~force /\ load.ret # NoParse
             THEN /\ op' = [Returned("parse_query", free_text, NoParse, load.ret)
                              EXCEPT !.lookup = "hit"]
                  /\ UNCHANGED <<parseFile, saved>>
             ELSE IF answer = NoParse
             THEN /\ op' = [Raised("parse_query", free_text, NoParse, "Exception")
                              EXCEPT !.lookup = IF force THEN "forced" ELSE "miss",
                                     !.call = "llm"]
                  /\ UNCHANGED <<parseFile, saved>>
             ELSE /\ op' = [Returned("parse_query", free_text, answer, answer)
                              EXCEPT !.lookup = IF force THEN "forced" ELSE "miss",
                                     !.call = "llm"]
                  /\ parseFile' = IF written THEN _save_parse(answer, free_text)
                                  ELSE parseFile
                  /\ saved' = IF written
                              THEN [parsed |-> answer, query_text |-> free_text,
                                    n |-> op.n + 1]
                              ELSE saved
    /\ UNCHANGED notParse

\* the functions of llm_parser.py called in any order
SpecParse ==
    /\ InitParse
    /\ [][\/ CallSaveParse
          \/ CallLoadParse
          \/ CallParseQuery]_vars

(***************************************************************************)
(* fetch_combination run by two processes on the same usage and cache      *)
(* files.  A step is what a process does up to and including one file      *)
(* access of _increment_usage or _cache_store; nothing locks the files.    *)
(***************************************************************************)
\* the combination each process fetches
ProcCombo(p) == IF p = 1 THEN Combos.OneWay ELSE Combos.OneWayWindow

\* fetch_combination lines 282-283 with _increment_usage and _cache_store
\* unfolded: the file access that follows `step`
FollowingStoreFirst(step) ==
    CASE step = "request" -> "load_cache"
      [] step = "load_cache" -> "save_cache"
      [] step = "save_cache" -> "load_usage"
      [] step = "load_usage" -> "save_usage"
      [] step = "save_usage" -> "done"
Following(step) ==
    CASE step = "request" -> "load_usage"
      [] step = "load_usage" -> "save_usage"
      [] step = "save_usage" -> "load_cache"
      [] step = "load_cache" -> "save_cache"
      [] step = "save_cache" -> "done"

\* _save_usage: the content written
_save_usage_stale(usage) == usageFile
_save_usage(usage) == usage

\* pc "two_processes": the steps of the two interleave freely;
\* pc "one_process": the two calls are made one after the other
MayStep(p) ==
    /\ pc \in {"one_process", "two_processes"}
    /\ pc = "one_process" =>
          \A q \in Procs \ {p} : proc[q].pc \in {"request", "done"}

notProcs ==
    <<combinations, post_filters, NO_CACHE, cacheWritable, today, now, pc, i, raw,
      k, outbound_groups, results, d, a, seen_routes, run, firstResults, usage0,
      ev, hist, cacheShape, op, flights, fpos, parseFile, saved>>

InitProcs ==
    /\ pc \in {"one_process", "two_processes"}
    /\ proc = [p \in Procs |-> [NoProcess[p] EXCEPT !.pc = "request"]]
    /\ NO_CACHE \in BOOLEAN
    /\ cacheWritable \in BOOLEAN
    /\ cacheFile \in {[readable |-> b, entries |-> EmptyDict] : b \in BOOLEAN}
    /\ cacheShape = "object"
    /\ today = "2026-03"
    /\ now = 0
    /\ usageFile \in
         {Missing, [month |-> "2026-02", count |-> SERPAPI_MONTHLY_LIMIT]}
         \cup {[month |-> "2026-03", count |-> c] :
                 c \in (SERPAPI_MONTHLY_LIMIT - MaxHeadroom)..SERPAPI_MONTHLY_LIMIT}
    /\ usage0 = PersistedCount
    /\ combinations = <<>>
    /\ post_filters = <<>>
    /\ i = 1
    /\ raw = EmptyResponse
    /\ k = 1
    /\ outbound_groups = <<>>
    /\ results = <<>>
    /\ d = 1
    /\ a = 1
    /\ seen_routes = {}
    /\ run = "first"
    /\ firstResults = <<>>
    /\ ev = NoEvent
    /\ hist = NoHistory
    /\ op = NoCall
    /\ flights = <<>>
    /\ fpos = 1
    /\ parseFile = Missing
    /\ saved = NoSave

\* fetch_combination lines 246-280: the quota test, the cache lookup and the
\* request; an answer without error goes on to _increment_usage
Request ==
    \E p \in Procs :
       /\ MayStep(p)
       /\ proc[p].pc = "request"
       /\ \E up \in Answers(_build_params(ProcCombo(p))) :
            LET r == fetch_combination(ProcCombo(p), up)
            IN  proc' = [proc EXCEPT
                           ![p].ret = r.value,
                           ![p].pc = IF r.call = "answered"
                                     THEN Following("request") ELSE "done"]
       /\ UNCHANGED <<notProcs, usageFile, cacheFile>>

\* _increment_usage line 40: usage = _load_usage()
LoadUsage ==
    \E p \in Procs :
       /\ MayStep(p)
       /\ proc[p].pc = "load_usage"
       /\ proc' = [proc EXCEPT ![p].usage = _load_usage,
                               ![p].pc = Following("load_usage")]
       /\ UNCHANGED <<notProcs, usageFile, cacheFile>>

\* _increment_usage lines 41-42: usage["count"] += 1; _save_usage(usage)
SaveUsage ==
    \E p \in Procs :
       /\ MayStep(p)
       /\ proc[p].pc = "save_usage"
       /\ usageFile' = _save_usage([proc[p].usage EXCEPT !.count = @ + 1])
       /\ proc' = [proc EXCEPT ![p].incremented = TRUE,
                               ![p].pc = Following("save_usage")]
       /\ UNCHANGED <<notProcs, cacheFile>>

\* _cache_store lines 95-98: return when NO_CACHE, else cache = _cache_load()
LoadCache ==
    \E p \in Procs :
       /\ MayStep(p)
       /\ proc[p].pc = "load_cache"
       /\ proc' = [proc EXCEPT
                     ![p].cache = IF NO_CACHE THEN @ ELSE _cache_load,
                     ![p].pc = IF NO_CACHE THEN Following("save_cache")
                               ELSE Following("load_cache")]
       /\ UNCHANGED <<notProcs, usageFile, cacheFile>>

\* _cache_store lines 99-103: cache[key] = {...}; _cache_save(cache)
SaveCache ==
    \E p \in Procs :
       /\ MayStep(p)
       /\ proc[p].pc = "save_cache"
       /\ cacheFile' =
            _cache_save(Put(proc[p].cache, _cache_key(_build_params(ProcCombo(p))),
                            [timestamp |-> now, response |-> proc[p].ret]))
       /\ proc' = [proc EXCEPT ![p].stored = cacheWritable,
                               ![p].pc = Following("save_cache")]
       /\ UNCHANGED <<notProcs, usageFile>>

\* two calls of fetch_combination, one after the other or interleaved
SpecProcs ==
    /\ InitProcs
    /\ [][\/ Request
          \/ LoadUsage
          \/ SaveUsage
          \/ LoadCache
          \/ SaveCache]_vars

(***************************************************************************)
(* seed_cache.py: cache entries written from earlier results               *)
(***************************************************************************)
\* seed_cache lines 239-250: the outbound one-way params
seed_out_p(combo) == OneWayOutbound(IndependentBase(combo))

\* seed_cache lines 252-264: the return one-way params
seed_ret_p(combo) ==
    LET base == IndependentBase(combo)
        p0 == Put(base, "type", "2")
        p1 == Put(p0, "departure_id", combo.arrival_id)
        p2 == Put(p1, "arrival_id", combo.departure_id)
        p3 == Put(p2, "outbound_date", combo.return_date)
        p4 == Pop(Pop(p3, "return_date"), "outbound_times")
    IN  IF combo.return_times # <<>>
        THEN Put(p4, "outbound_times",
                 IF Len(combo.return_times) >= 2
                 THEN <<combo.return_times[1], combo.return_times[2]>>
                 ELSE combo.return_times)
        ELSE p4

\* seed_cache lines 210-292: the dict `cache`, prior[n] being the calls of
\* combination n for whose dates the earlier export holds groups
RECURSIVE SeedEntries(_, _, _)
SeedEntries(combos, prior, n) ==
    IF n = 0
    THEN EmptyDict
    ELSE LET combo == combos[n]
             SeededEntry ==
                 [timestamp |-> now,
                  response |-> [tag |-> "response",
                                best_flights |-> <<Group(1, "tokA")>>,
                                other_flights |-> <<>>,
                                seeded_from_excel |-> TRUE]]
             cache0 == SeedEntries(combos, prior, n - 1)
             cache1 == IF "rt" \in prior[n]
                       THEN Put(cache0, _cache_key(_build_params(combo)), SeededEntry)
                       ELSE cache0
             cache2 == IF IsRoundTrip(combo) /\ "out" \in prior[n]
                       THEN Put(cache1, _cache_key(seed_out_p(combo)), SeededEntry)
                       ELSE cache1
         IN  IF IsRoundTrip(combo) /\ "ret" \in prior[n]
             THEN Put(cache2, _cache_key(seed_ret_p(combo)), SeededEntry)
             ELSE cache2

notSeed ==
    <<combinations, post_filters, NO_CACHE, cacheWritable, today, now, usageFile,
      i, raw, k, outbound_groups, results, d, a, seen_routes, run, firstResults,
      usage0, ev, hist, cacheShape, flights, fpos, parseFile, saved, proc>>

\* the combinations parse_query hands to seed_cache and then to fetch_all, and
\* the cache file seed_cache merges into
InitSeed ==
    /\ combinations \in
         {<<c>> : c \in {Combos.RoundTrip, Combos.OneWay, Combos.BusyRoundTrip,
                         Combos.FourPartWindows,
                         [Combos.RoundTrip EXCEPT !.arrival_id = "SEA"],
                         [Combos.RoundTrip EXCEPT !.departure_id = "DEN",
                                           !.arrival_id = "AUS"]}}
         \cup {<<Combos.RoundTripLater, [Combos.OneWay EXCEPT !.arrival_id = "DEN"]>>}
    /\ cacheFile \in {[readable |-> b, entries |-> EmptyDict] : b \in BOOLEAN}
    /\ pc = "seed"
    /\ op = NoCall
    /\ NO_CACHE = FALSE
    /\ cacheWritable = TRUE
    /\ cacheShape = "object"
    /\ today = "2026-03"
    /\ now = 0
    /\ usageFile = Missing
    /\ usage0 = 0
    /\ post_filters = <<>>
    /\ i = 1
    /\ raw = EmptyResponse
    /\ k = 1
    /\ outbound_groups = <<>>
    /\ results = <<>>
    /\ d = 1
    /\ a = 1
    /\ seen_routes = {}
    /\ run = "first"
    /\ firstResults = <<>>
    /\ ev = NoEvent
    /\ hist = NoHistory
    /\ flights = <<>>
    /\ fpos = 1
    /\ parseFile = Missing
    /\ saved = NoSave
    /\ proc = NoProcess

\* seed_cache.py without --dry-run: the prepared entries merged into the
\* cache file
SeedCache ==
    /\ pc = "seed"
    /\ \E prior \in [1..Len(combinations) -> SUBSET {"rt", "out", "ret"}] :
         LET cache == SeedEntries(combinations, prior, Len(combinations))
             existing == _cache_load
         IN  /\ cacheFile' =
                  CacheFile([key \in DOMAIN existing \cup DOMAIN cache |->
                               IF key \in DOMAIN cache
                               THEN cache[key] ELSE existing[key]])
             /\ op' = Returned("seed_cache", EmptyDict, NoResponse, None)
    /\ pc' = "seeded"
    /\ UNCHANGED notSeed

\* fetch_all after the seeding: the lookup of fetch_combination (line 259) or
\* of _fetch_one_way_groups (line 221) for one combination
SeededLookup ==
    /\ pc = "seeded"
    /\ op.n < MaxCalls
    /\ \E n \in 1..Len(combinations) :
         LET combo == combinations[n]
         IN  \E params \in {_build_params(combo)}
                           \cup (IF IsRoundTrip(combo)
                                 THEN {outbound_params(combo), return_params(combo)}
                                 ELSE {}) :
                op' = Returned("_cache_lookup", _cache_key(params), NoResponse,
                               _cache_lookup(params))
    /\ UNCHANGED <<notSeed, pc, cacheFile>>

\* seed_cache.py, then the lookups of a run of fetch_all
SpecSeed ==
    /\ InitSeed
    /\ [][\/ SeedCache
          \/ SeededLookup]_vars

(***************************************************************************)
(* Properties                                                              *)
(***************************************************************************)
\* the cache holds an entry for `key` that is no older than the TTL
Fresh(key) ==
    /\ cacheFile.readable
    /\ key \in DOMAIN cacheFile.entries
    /\ now - cacheFile.entries[key].timestamp <= TtlSeconds

\* some entry of `results` is the fatal sentinel
FatalReturned == \E n \in 1..Len(results) : IsFatal(results[n])

\* the main loop is neither enriching, fetching one-way legs nor sleeping,
\* nor about to fetch a combination
MainLoopStopped ==
    pc \in {"returned", "dual", "dual_out", "dual_ret", "dual_sleep", "done"}

\* C1: the persisted usage count of the month never exceeds
\* SERPAPI_MONTHLY_LIMIT, whatever the upstream answers.
C1_UsageNeverExceedsLimit == PersistedCount <= SERPAPI_MONTHLY_LIMIT

\* the run itself spent the last of the quota and a later lookup was refused
C1_Witness ==
    /\ usage0 < SERPAPI_MONTHLY_LIMIT
    /\ PersistedCount = SERPAPI_MONTHLY_LIMIT
    /\ ev.lookup = "miss"
    /\ ev.call = "none"

\* C2: while the persisted usage count is at or above the limit, no step of
\* any call site issues an upstream call.
C2_NoCallAtLimit ==
    [][PersistedCount >= SERPAPI_MONTHLY_LIMIT => ev'.call = "none"]_vars

\* a dual-fetch lookup missed the cache and was refused at the limit
C2_Witness ==
    /\ PersistedCount >= SERPAPI_MONTHLY_LIMIT
    /\ ev.site = "dual_fetch"
    /\ ev.lookup = "miss"
    /\ ev.call = "none"

\* C3: once fetch_combination meets the quota at a combination, the batch is
\* stopped there: no independent one-way lookup, no delay and no later
\* combination follow.
C3_QuotaStopsBatch ==
    hist.quotaAt > 0 => i = hist.quotaAt /\ MainLoopStopped

\* C4: after fetch_all has received the fatal sentinel, the run issues no
\* further upstream call.
C4_NoCallAfterFatal ==
    [][FatalReturned => ev'.call = "none"]_vars

\* C5: an invalid-credential error on the primary call of a combination ends
\* the main loop at that combination: no enrichment, no independent one-way
\* lookup, no delay and no later primary fetch.
C5_AuthErrorEndsMainLoop ==
    hist.authAt > 0 => i = hist.authAt /\ MainLoopStopped

\* the run ended at the first of two combinations on an auth error
C5_Witness ==
    /\ hist.authAt = 1
    /\ total = 2
    /\ pc = "done"
    /\ Len(results) = 1

\* C6: at every call site an upstream error is fatal (the sentinel goes back
\* to the loop, which stops) exactly when its text is an invalid-credential
\* error.
C6_AuthErrorFatalEverywhere ==
    ev.call = "error" =>
        ((pc = "returned" /\ IsFatal(raw)) <=> HasInvalidApiKey(LowerError(ev.error)))

\* C7: every step changes the persisted count by one if the upstream answered
\* its call without error, and by nothing otherwise.
C7_AnsweredCallCounts ==
    [][PersistedCount' =
         PersistedCount + (IF ev'.call = "answered" THEN 1 ELSE 0)]_vars

\* C8: a primary lookup that finds a fresh entry, the cache being enabled and
\* the quota not reached, issues no call, leaves the usage file alone, returns
\* the stored response and, for a round trip with outbound groups, goes on to
\* the return-leg enrichment.
C8_PrimaryCacheHit ==
    [][(/\ pc = "fetch_combination"
        /\ ~NO_CACHE
        /\ PersistedCount < SERPAPI_MONTHLY_LIMIT
        /\ Fresh(_cache_key(_build_params(combinations[i]))))
       => LET stored ==
                cacheFile.entries[_cache_key(_build_params(combinations[i]))].response
          IN  /\ ev'.lookup = "hit"
              /\ ev'.call = "none"
              /\ usageFile' = usageFile
              /\ raw' = stored
              /\ (pc' = "enrich") <=>
                     (IsRoundTrip(combinations[i]) /\ TopGroups(stored) # <<>>)]_vars

\* a round trip was served from the cache in the second run and its
\* enrichment follows
C8_Witness ==
    /\ run = "second"
    /\ ev.site = "primary"
    /\ ev.lookup = "hit"
    /\ pc = "enrich"

\* C9: with the cache enabled and writable, a lookup whose key the upstream
\* already answered without error in this run is not a miss.
C9_AnsweredIsCached ==
    [][(ev'.lookup = "miss" /\ ~NO_CACHE /\ cacheWritable)
       => ev'.key \notin hist.answered]_vars

AllProcessed ==
    Cardinality({n \in 1..Len(results) : results[n].tag # "independent"}) = total

\* fetch_all is at a statement it can execute: inside the main loop on one of
\* the combinations, inside the enrichment on one of the top groups, inside
\* the dual-fetch loop on a combination and an airline filter
CanStep ==
    /\ pc \in {"fetch_combination", "enrich", "returned", "one_way_out",
                "one_way_ret", "sleep"} => i \in 1..total
    /\ pc = "sleep" => i < total
    /\ pc = "enrich" => k \in 1..Len(TopGroups(raw))
    /\ pc \in {"dual_out", "dual_ret", "dual_sleep"} =>
           d \in 1..total /\ a \in 1..Len(airline_filters)
    /\ pc \in {"fetch_combination", "enrich", "returned", "one_way_out",
                "one_way_ret", "sleep", "dual", "dual_out", "dual_ret",
                "dual_sleep", "done"}

TransientPrimaryError(e) ==
    /\ e.site = "primary"
    /\ e.call = "error"
    /\ ~HasInvalidApiKey(LowerError(e.error))

\* C12: a primary call answered with a non-auth error leaves usage and cache
\* as they were and returns an empty response without enrichment, and
\* fetch_all then appends that empty response and nothing else for the
\* combination: no independent one-way search follows.
C12_TransientErrorSkips ==
    [][/\ TransientPrimaryError(ev') =>
            /\ usageFile' = usageFile
            /\ cacheFile' = cacheFile
            /\ raw' = EmptyResponse
            /\ pc' = "returned"
       /\ (pc = "returned" /\ TransientPrimaryError(ev)) =>
            /\ results' = Append(results, EmptyResponse)
            /\ pc' # "one_way_out"]_vars

\* C13: the main loop has slept once before each combination but the first,
\* it sleeps only when another combination follows, and a run without fatal
\* error over n combinations has slept n-1 times when the loop is over.
C13_OneDelayBetweenCombinations ==
    /\ hist.delays = i - 1
    /\ pc = "sleep" => i < total
    /\ (pc \in {"dual", "dual_out", "dual_ret", "dual_sleep", "done"}
          /\ hist.authAt = 0) => hist.delays = total - 1

\* a run over two combinations has returned after one delay
C13_Witness ==
    /\ pc = "done"
    /\ total = 2
    /\ hist.authAt = 0
    /\ hist.delays = 1

\* the distinct (departure, arrival, outbound date, return date) of the
\* round-trip combinations
RoundTripRoutes ==
    {<<combinations[n].departure_id, combinations[n].arrival_id,
       combinations[n].outbound_date, combinations[n].return_date>> :
        n \in {m \in 1..total : IsRoundTrip(combinations[m])}}

\* C14: when fetch_all returns, the dual-fetch phase has appended one unit per
\* distinct round-trip route and airline filter and slept once per distinct
\* route; without an airline filter it makes no lookup, appends nothing and
\* does not sleep.
C14_DualFetchOncePerRoute ==
    /\ pc = "done" =>
          /\ hist.dualUnits = Cardinality(RoundTripRoutes) * Len(airline_filters)
          /\ hist.dualDelays =
                IF airline_filters = <<>> THEN 0 ELSE Cardinality(RoundTripRoutes)
    /\ airline_filters = <<>> =>
          /\ ev.site # "dual_fetch"
          /\ hist.dualUnits = 0

\* two distinct routes and two airline filters: four units, two delays
C14_Witness ==
    /\ pc = "done"
    /\ Cardinality(RoundTripRoutes) = 2
    /\ Len(airline_filters) = 2
    /\ hist.dualUnits = 4
    /\ hist.dualDelays = 2

\* the last step was a return-leg lookup that gave no group: refused for
\* quota, failed, or answered without groups
ReturnLegGaveNothing ==
    /\ ev.site = "return_leg"
    /\ \/ ev.lookup = "miss" /\ ev.call \in {"none", "raised", "error"}
       \/ ev.call = "answered" /\ ev.groups = 0

\* C15: a combination has at most five return-leg lookups, each for a group
\* among the first five of best+other that carries a token and each for a
\* round trip; only such groups ever hold return-leg data, and a group whose
\* lookup gave nothing holds none.
C15_EnrichTopFive ==
    /\ hist.legLookups <= 5
    /\ ~IsRoundTrip(combinations[i]) => hist.legLookups = 0
    /\ ev.site = "return_leg" =>
          /\ IsRoundTrip(combinations[i])
          /\ k - 1 \in 1..5
          /\ all_groups(raw)[k - 1].departure_token # ""
          /\ ev.key.departure_token = all_groups(raw)[k - 1].departure_token
    /\ ReturnLegGaveNothing => all_groups(raw)[k - 1].return_flights = 0
    /\ raw.tag = "response" =>
          \A n \in 1..Len(all_groups(raw)) :
             all_groups(raw)[n].return_flights # 0 =>
                 n <= 5 /\ all_groups(raw)[n].departure_token # ""

\* six groups with tokens came back: five lookups were made, the first group
\* has its return leg and the sixth has none
C15_Witness ==
    /\ pc = "returned"
    /\ raw.tag = "response"
    /\ Len(all_groups(raw)) = 6
    /\ hist.legLookups = 5
    /\ all_groups(raw)[1].return_flights # 0
    /\ all_groups(raw)[6].departure_token # ""
    /\ all_groups(raw)[6].return_flights = 0

\* the main loop has finished the iteration of combination i
IterationOver ==
    pc \in {"sleep", "dual", "dual_out", "dual_ret", "dual_sleep", "done"}

\* combination n is a round trip whose primary call met no fatal error
PairDue(n) == IsRoundTrip(combinations[n]) /\ hist.authAt # n

\* where the main loop puts the primary entry of combination n
Pos(n) == n + Cardinality({m \in 1..(n - 1) : PairDue(m)})

\* C16: when an iteration of the main loop is over, `results` holds for each
\* combination so far its primary entry, followed at once by one
\* independent-pair unit if it is a round trip without fatal error and by no
\* unit otherwise; and every independent one-way lookup is a one-way query
\* without include_airlines, exclude_airlines and return_date, the first on
\* the outbound route and date, the second on the reversed route and the
\* return date.
C16_OnePairPerRoundTrip ==
    /\ IterationOver =>
          /\ Len(results) - hist.dualUnits =
                i + Cardinality({m \in 1..i : PairDue(m)})
          /\ \A n \in 1..i :
                /\ results[Pos(n)].tag # "independent"
                /\ PairDue(n) =>
                      /\ results[Pos(n) + 1].tag = "independent"
                      /\ results[Pos(n) + 1].combo =
                            [departure_id |-> combinations[n].departure_id,
                             arrival_id |-> combinations[n].arrival_id,
                             outbound_date |-> combinations[n].outbound_date,
                             return_date |-> combinations[n].return_date]
    /\ ev.site = "one_way" =>
          /\ IsRoundTrip(combinations[i])
          /\ DOMAIN ev.key \cap {"include_airlines", "exclude_airlines",
                                  "return_date"} = {}
          /\ ev.key.type = "2"
          /\ pc = "one_way_ret" =>
                /\ ev.key.departure_id = _expand_airports(combinations[i].departure_id)
                /\ ev.key.arrival_id = _expand_airports(combinations[i].arrival_id)
                /\ ev.key.outbound_date = combinations[i].outbound_date
          /\ pc # "one_way_ret" =>
                /\ ev.key.departure_id = _expand_airports(combinations[i].arrival_id)
                /\ ev.key.arrival_id = _expand_airports(combinations[i].departure_id)
                /\ ev.key.outbound_date = combinations[i].return_date

\* the pair of a round trip that asked for an airline was fetched and its unit
\* appended after the primary entry
C16_Witness ==
    /\ ev.site = "one_way"
    /\ pc = "dual"
    /\ combinations[i].include_airlines # None
    /\ Len(results) = 2
    /\ results[2].tag = "independent"
    /\ results[2].return_groups # <<>>

\* C17: the parameter set of every lookup, whatever its site, has at most two
\* parts in outbound_times and in return_times.
C17_DepartureWindowsOnly ==
    ev.site # "none" =>
        \A f \in DOMAIN ev.key \cap {"outbound_times", "return_times"} :
            Len(ev.key[f]) <= 2

\* a dual-fetch lookup for a combination with four-part windows sent the two
\* departure parts, stripped of blanks where _build_params made them
C17_Witness ==
    /\ ev.site = "dual_fetch"
    /\ pc = "dual_ret"
    /\ combinations[d].outbound_times = <<"6", "12", "8", " 23">>
    /\ ev.key.outbound_times = <<"6", "12">>

\* the keys the cache file holds and the key of the first combination
ProbeKeys ==
    DOMAIN cacheFile.entries \cup {_cache_key(_build_params(combinations[1]))}

\* C18: with caching enabled, _cache_lookup gives the stored response for an
\* entry that is at most TTL old and None for an older or a missing one, and a
\* step that only looks up (no answered call follows) leaves the cache file as
\* it was.
C18_LookupHonoursTtl ==
    [][/\ \A key \in ProbeKeys :
            _cache_lookup(Put(key, "api_key", SERPAPI_KEY)) =
                IF ~NO_CACHE /\ Fresh(key)
                THEN cacheFile.entries[key].response
                ELSE NoResponse
       /\ ev'.call # "answered" => cacheFile' = cacheFile]_vars

\* an entry older than the TTL was looked up and missed, and is still in the
\* file because the call that followed failed
C18_Witness ==
    /\ run = "second"
    /\ ev.lookup = "miss"
    /\ ev.call \in {"raised", "error"}
    /\ ev.key \in DOMAIN cacheFile.entries
    /\ now - cacheFile.entries[ev.key].timestamp > TtlSeconds

\* the step called _cache_store: a primary call was answered without error, or
\* another call was answered with groups
Stored(e) == e.call = "answered" /\ (e.site = "primary" \/ e.groups > 0)

\* C19: with caching enabled and the file writable, after a step that calls
\* _cache_store the file parses, holds under the key of the lookup an entry
\* with the current time (for a primary call, the response just returned),
\* and holds no entry older than the TTL.
C19_StoreWritesAndPrunes ==
    [][(Stored(ev') /\ ~NO_CACHE /\ cacheWritable) =>
         /\ cacheFile'.readable
         /\ ev'.key \in DOMAIN cacheFile'.entries
         /\ cacheFile'.entries[ev'.key].timestamp = now'
         /\ ev'.site = "primary" => cacheFile'.entries[ev'.key].response = raw'
         /\ \A x \in DOMAIN cacheFile'.entries :
               now' - cacheFile'.entries[x].timestamp <= TtlSeconds]_vars

\* the first run cached two different combinations; past the TTL the first
\* store of the second run leaves its own entry only
C19_Witness ==
    /\ run = "second"
    /\ now > TtlSeconds
    /\ hist.clean
    /\ total = 2
    /\ combinations[1] # combinations[2]
    /\ Stored(ev)
    /\ DOMAIN cacheFile.entries = {ev.key}

\* a dict as Python holds it, in insertion order: a sequence of <<field, value>>
\* with distinct fields; dict(items) forgets the order
FromItems(items) ==
    [f \in {items[n][1] : n \in 1..Len(items)} |->
        items[CHOOSE n \in 1..Len(items) : items[n][1] = f][2]]
\* the order in which _build_params and its callers insert the fields
FieldOrder ==
    <<"engine", "api_key", "departure_id", "arrival_id", "outbound_date", "type",
      "travel_class", "adults", "children", "stops", "sort_by", "bags",
      "currency", "hl", "gl", "deep_search", "return_date", "include_airlines",
      "exclude_airlines", "max_price", "max_duration", "outbound_times",
      "return_times", "departure_token">>
Items(params) ==
    LET fields == SelectSeq(FieldOrder, LAMBDA f : f \in DOMAIN params)
    IN  [n \in 1..Len(fields) |-> <<fields[n], params[fields[n]]>>]
Reversed(items) == [n \in 1..Len(items) |-> items[Len(items) + 1 - n]]

\* the params of the current combination, and the same with another
\* credential, another date, a field less and a field more, each in two orders
ProbeParams ==
    LET p == _build_params(combinations[i])
    IN  {p, Put(p, "api_key", "key-2"), Put(p, "outbound_date", "2026-03-28"),
         Pop(p, "deep_search"), Put(p, "departure_token", "tokA")}
ProbeItems ==
    {Items(p) : p \in ProbeParams} \cup {Reversed(Items(p)) : p \in ProbeParams}

\* the two dicts have the same fields besides api_key, with the same values
AgreeBesidesCredential(s1, s2) ==
    LET fields(t) == {t[n][1] : n \in 1..Len(t)} \ {"api_key"}
        value(t, f) == t[CHOOSE n \in 1..Len(t) : t[n][1] = f][2]
    IN  /\ fields(s1) = fields(s2)
        /\ \A f \in fields(s1) : value(s1, f) = value(s2, f)

CacheUnusable == ~cacheFile.readable \/ cacheShape # "object"

\* C21: with the cache enabled and the cache file missing, unreadable or
\* malformed, _cache_lookup returns None, _cache_store (file writable) leaves
\* a cache holding only the new entry, neither raises, and fetch_combination
\* (quota left, usage file sound) proceeds as on a miss to the external call.
C21_UnusableCacheIsEmpty ==
    [][CacheUnusable /\ ~NO_CACHE /\ op'.n = op.n + 1 =>
         /\ op'.name = "_cache_lookup" =>
               op'.raised = "" /\ op'.ret = NoResponse
         /\ op'.name = "_cache_store" =>
               /\ op'.raised = ""
               /\ cacheWritable =>
                     cacheFile' = CacheFile(Put(EmptyDict, op'.key,
                                      [timestamp |-> now, response |-> op'.arg]))
         /\ op'.name = "fetch_combination" /\ HasCount(_load_usage)
              /\ ~LimitReached(_load_usage) =>
               op'.raised = "" /\ op'.lookup = "miss" /\ op'.call # "none"]_vars

\* C22: while config.NO_CACHE is true no lookup of a fetch_all run is served
\* from the cache, every lookup made with quota left goes to the external
\* API, and no step changes the cache file.
C22_NoCacheBypassesCache ==
    [][NO_CACHE =>
         /\ cacheFile' = cacheFile
         /\ ev'.lookup # "hit"
         /\ ev'.site # "none" /\ PersistedCount < SERPAPI_MONTHLY_LIMIT =>
               ev'.call # "none"]_vars

\* under --no-cache a return-leg lookup whose entry is fresh in the cache went
\* to the API and was answered
C22_Witness ==
    /\ NO_CACHE
    /\ run = "second"
    /\ ev.site = "return_leg"
    /\ Fresh(ev.key)
    /\ ev.call = "answered"

\* the usage file stores a month and a count
StoresMonthAndCount == {"month", "count"} \subseteq DOMAIN usageFile

\* C23: on a usage file that stores a month and a count, _increment_usage
\* returns and persists the stored count plus one when the stored month is
\* the current one, and 1 under the current month when it is not;
\* get_monthly_usage then returns 0 after a month rollover; and
\* get_monthly_usage never changes the usage file.
C23_IncrementAndRollover ==
    [][op'.n = op.n + 1 =>
         /\ op'.name = "get_monthly_usage" => usageFile' = usageFile
         /\ StoresMonthAndCount =>
               LET previous == IF usageFile.month = today THEN usageFile.count ELSE 0
               IN  /\ op'.name = "_increment_usage" =>
                         /\ op'.raised = ""
                         /\ op'.ret = previous + 1
                         /\ usageFile' = [month |-> today, count |-> previous + 1]
                   /\ op'.name = "get_monthly_usage" /\ usageFile.month # today =>
                         op'.raised = "" /\ op'.ret = 0]_vars

\* after the rollover the first increment returned 1 and persisted it under
\* the new month
C23_Witness ==
    /\ today = "2026-04"
    /\ op.name = "_increment_usage"
    /\ op.raised = ""
    /\ op.ret = 1
    /\ usageFile = [month |-> "2026-04", count |-> 1]

\* C24: on a usage file that is missing, is not JSON or lacks the month or
\* the count, get_monthly_usage returns 0, _increment_usage returns and
\* persists 1 under the current month, the quota check of fetch_combination
\* passes, and none of them raises.
C24_MalformedUsageReadsZero ==
    [][~StoresMonthAndCount /\ op'.n = op.n + 1 =>
         /\ op'.name = "get_monthly_usage" =>
               op'.raised = "" /\ op'.ret = 0
         /\ op'.name = "_increment_usage" =>
               /\ op'.raised = ""
               /\ op'.ret = 1
               /\ usageFile' = [month |-> today, count |-> 1]
         /\ op'.name = "fetch_combination" /\ (NO_CACHE \/ LoadedDict) =>
               op'.raised = "" /\ op'.lookup # "none"]_vars

\* process_results: every result the groups and pairs of the list give, in
\* input order, before deduplication
RECURSIVE AllCandidates(_)
AllCandidates(responses) ==
    IF responses = <<>>
    THEN <<>>
    ELSE Candidates(Head(responses)) \o AllCandidates(Tail(responses))

\* the dedup keys of a list of results
KeySet(list) == {dedup_key(list[n]) : n \in 1..Len(list)}

\* where the key of the n-th result returned first occurs among the candidates
FirstAt(n) ==
    LET every == AllCandidates(results)
        at == {j \in 1..Len(every) : dedup_key(every[j]) = dedup_key(flights[n])}
    IN  CHOOSE j \in at : \A other \in at : j <= other

\* the plain groups of the raw list that have segments
PlainGroups ==
    UNION {{all_groups(results[n])[j] : j \in 1..Len(all_groups(results[n]))} :
             n \in {x \in 1..Len(results) : results[x].tag = "response"}}

\* C25: process_results returns no two results with the same dedup key; each
\* key of a candidate is returned once, with the result of the first group
\* or pair in input order that has it; the results are in order of first
\* occurrence; the same raw group fed twice gives one result.
C25_FirstOccurrenceKept ==
    pc # "process_results" =>
      LET every == AllCandidates(results)
      IN  /\ \A m, n \in 1..Len(flights) :
                m # n => dedup_key(flights[m]) # dedup_key(flights[n])
          /\ KeySet(flights) = KeySet(every)
          /\ \A n \in 1..Len(flights) : flights[n] = every[FirstAt(n)]
          /\ \A m, n \in 1..Len(flights) : m < n => FirstAt(m) < FirstAt(n)
          /\ \A group \in PlainGroups :
                Get(group, "flights", <<>>) # <<>> =>
                  Len(process_results(<<Body(<<group>>, <<group>>)>>)) = 1

\* a later group with the key of an earlier one, but another price, was
\* dropped
C25_Witness ==
    /\ pc # "process_results"
    /\ \E j \in 1..Len(AllCandidates(results)) :
          \A n \in 1..Len(flights) : flights[n] # AllCandidates(results)[j]

\* every reordering of a sequence
Perms(seq) ==
    LET n == Len(seq)
        orders == {q \in [1..n -> 1..n] : \A x, y \in 1..n : x # y => q[x] # q[y]}
    IN  {[x \in 1..n |-> seq[q[x]]] : q \in orders}

\* the groups a pair unit builds its pairs from
TopSet(groups) == {top_three(groups)[n] : n \in 1..Len(top_three(groups))}

\* a response with its groups reordered: any order, or for a pair unit only
\* the orders that keep the same groups among the first three of each side
ResponseVariants(response, any) ==
    IF response.tag = "response"
    THEN LET nb == Len(response.best_flights)
         IN  {Body(SubSeq(groups, 1, nb), SubSeq(groups, nb + 1, Len(groups))) :
                groups \in Perms(all_groups(response))}
    ELSE IF response.tag = "independent"
    THEN {[response EXCEPT !.outbound_groups = out, !.return_groups = ret] :
            out \in {x \in Perms(response.outbound_groups) :
                       any \/ TopSet(x) = TopSet(response.outbound_groups)},
            ret \in {x \in Perms(response.return_groups) :
                       any \/ TopSet(x) = TopSet(response.return_groups)}}
    ELSE {response}

\* a raw list with its responses reordered and the groups in each reordered
RECURSIVE InPlaceVariants(_, _)
InPlaceVariants(responses, any) ==
    IF responses = <<>>
    THEN {<<>>}
    ELSE {<<first>> \o rest :
            first \in ResponseVariants(Head(responses), any),
            rest \in InPlaceVariants(Tail(responses), any)}
VariantLists(responses, any) ==
    UNION {Perms(list) : list \in InPlaceVariants(responses, any)}

\* C26 as stated: the set of dedup keys process_results returns is the same
\* for every permutation of the response list and of the groups inside each
\* plain response or pair unit.
C26_KeysUnderAnyPermutation ==
    pc # "process_results" =>
      \A list \in VariantLists(results, TRUE) :
         KeySet(process_results(list)) = KeySet(flights)

\* C26 as amended: the same, for the permutations that keep the same groups
\* among the first three outbound and the first three return groups of each
\* pair unit.
C26_KeysUnderTopKeepingPermutation ==
    pc # "process_results" =>
      \A list \in VariantLists(results, FALSE) :
         KeySet(process_results(list)) = KeySet(flights)

\* a unit with five outbound groups: some reordering that keeps its first
\* three among the first three returns the results in another order
C26_Witness ==
    /\ pc # "process_results"
    /\ \E n \in 1..Len(results) :
          results[n].tag = "independent" /\ Len(results[n].outbound_groups) = 5
    /\ \E list \in VariantLists(results, FALSE) :
          list # results /\ process_results(list) # flights

\* the positions among the first three of `groups` that have segments
WithSegments(groups) ==
    {n \in 1..Len(groups) : n <= 3 /\ Get(groups[n], "flights", <<>>) # <<>>}
\* how many members of `set` are below n
Rank(set, n) == Cardinality({x \in set : x < n})

\* C27: a pair unit gives at most 9 results: one per (o, r) with o among the
\* first three outbound and r among the first three return groups that have
\* segments, outbound-major; later groups give nothing, an empty side gives
\* no result.
C27_PairsCappedAtNine ==
    pc # "process_results" =>
      \A n \in 1..Len(results) :
         results[n].tag = "independent" =>
           LET out == results[n].outbound_groups
               ret == results[n].return_groups
               O == WithSegments(out)
               R == WithSegments(ret)
               pairs == _build_independent_pairs(results[n])
           IN  /\ Len(pairs) <= 9
               /\ Len(pairs) = Cardinality(O) * Cardinality(R)
               /\ \A o \in O, r \in R :
                     LET pair == pairs[Rank(O, o) * Cardinality(R) + Rank(R, r) + 1]
                     IN  /\ pair.flight_numbers = flight_numbers_of(out[o].flights)
                         /\ pair.depart_time = out[o].flights[1].departure_airport.time
                         /\ pair.return_flight_numbers = flight_numbers_of(ret[r].flights)
                         /\ pair.return_depart_time = ret[r].flights[1].departure_airport.time
               /\ (out = <<>> \/ ret = <<>>) => pairs = <<>>
               /\ KeySet(pairs) \subseteq KeySet(flights)
               /\ Len(results) = 1 => Len(flights) <= 9

\* five outbound and four return groups gave nine results
C27_Witness ==
    /\ pc # "process_results"
    /\ Len(results) = 1
    /\ results[1].tag = "independent"
    /\ Len(results[1].outbound_groups) = 5
    /\ Len(results[1].return_groups) = 4
    /\ Len(flights) = 9

\* the price of a raw group, a missing one counted as 0
PriceOrZero(group) == Get(group, "price", 0)

\* C28: every result from a pair unit has itinerary_type independent_one_way
\* and price = total_price = outbound_price + return_price, the leg prices
\* being the prices of its two groups (0 when missing); every result from a
\* plain group has itinerary_type round_trip and the group's price as
\* total_price.
C28_PairPriceIsSum ==
    pc # "process_results" =>
      \A n \in 1..Len(flights) :
         LET result == flights[n]
             from == CHOOSE x \in 1..Len(results) :
                        dedup_key(result) \in KeySet(Candidates(results[x]))
         IN  IF results[from].tag = "independent"
             THEN /\ result.itinerary_type = "independent_one_way"
                  /\ result.price = result.total_price
                  /\ result.total_price = result.outbound_price + result.return_price
                  /\ \E o \in WithSegments(results[from].outbound_groups),
                        r \in WithSegments(results[from].return_groups) :
                        /\ result.flight_numbers =
                             flight_numbers_of(results[from].outbound_groups[o].flights)
                        /\ result.return_flight_numbers =
                             flight_numbers_of(results[from].return_groups[r].flights)
                        /\ result.outbound_price =
                             PriceOrZero(results[from].outbound_groups[o])
                        /\ result.return_price =
                             PriceOrZero(results[from].return_groups[r])
             ELSE /\ result.itinerary_type = "round_trip"
                  /\ \E group \in PlainGroups :
                        /\ Get(group, "flights", <<>>) # <<>>
                        /\ dedup_key(_process_flight_group(group)) = dedup_key(result)
                        /\ result.total_price = Get(group, "price", NoneInt)

\* a priced outbound leg was paired with a return leg without a price
C28_Witness ==
    /\ pc # "process_results"
    /\ \E n \in 1..Len(flights) :
          /\ flights[n].itinerary_type = "independent_one_way"
          /\ flights[n].outbound_price = 120
          /\ flights[n].return_price = 0
          /\ flights[n].total_price = 120

\* the filter the next iteration of apply_post_filters applies
current_pf == post_filters[fpos]
\* a result without its preference flag
Unflagged(r) == [r EXCEPT !.preferred = FALSE]
\* the one-to-one maps of positions
Bijections(n) ==
    {q \in [1..n -> 1..n] : \A x, y \in 1..n : x # y => q[x] # q[y]}

\* C29: an at_least_one_leg_airline filter returns a permutation of its
\* input in which the results matching the airline on the scoped leg(s) come
\* first, both groups keep their relative order, every matching result is
\* flagged preferred and no other result has its flag changed.
C29_PreferIsStablePartition ==
    [][pc = "apply_post_filters" /\ current_pf.filter_type = "at_least_one_leg_airline" =>
         LET matches(r) == _airline_matches(r, Lower(current_pf.value), current_pf.leg)
             n == Len(flights)
         IN  /\ Len(flights') = n
             /\ \E q \in Bijections(n) :
                   /\ \A x \in 1..n :
                         /\ Unflagged(flights'[x]) = Unflagged(flights[q[x]])
                         /\ flights'[x].preferred =
                              (matches(flights[q[x]]) \/ flights[q[x]].preferred)
                   /\ \A x, y \in 1..n :
                         x < y =>
                           /\ matches(flights[q[x]]) \/ ~matches(flights[q[y]])
                           /\ matches(flights[q[x]]) = matches(flights[q[y]]) =>
                                 q[x] < q[y]]_vars

\* a first airline filter has moved a matching result ahead of one that does
\* not match, and flagged it
C29_Witness ==
    /\ fpos = 2
    /\ post_filters[1].filter_type = "at_least_one_leg_airline"
    /\ Len(flights) = Len(process_results(results))
    /\ flights[1].preferred
    /\ ~flights[Len(flights)].preferred
    /\ Unflagged(flights[1]) # process_results(results)[1]

\* the arrival times of r an arrival_before filter on `leg` looks at
InScope(r, leg) ==
    (IF leg \in {"outbound", "any"} THEN {r.arrive_time} ELSE {})
    \cup (IF leg \in {"return", "any"} /\ r.return_arrive_time \notin {None, ""}
          THEN {r.return_arrive_time} ELSE {})

C31_UnparseableNeverRemoves ==
    [][pc = "apply_post_filters" /\ current_pf.filter_type = "arrival_before" =>
         /\ ~Parses(current_pf.value) => flights' = flights
         /\ Parses(current_pf.value) =>
               \A n \in 1..Len(flights) :
                  \/ \E x \in 1..Len(flights') : flights'[x] = flights[n]
                  \/ \E time \in InScope(flights[n], current_pf.leg) :
                        /\ Parses(time)
                        /\ fromisoformat(time) > fromisoformat(current_pf.value)
         /\ fpos < Len(post_filters) =>
               /\ pc' = "apply_post_filters"
               /\ fpos' = fpos + 1]_vars

\* after a filter with an unparseable deadline the next filter has removed a
\* result and kept one whose arrival time does not parse
C31_Witness ==
    /\ fpos = 3
    /\ pc # "apply_post_filters"
    /\ ~Parses(post_filters[1].value)
    /\ post_filters[2].filter_type = "arrival_before"
    /\ Len(flights) < Len(process_results(results))
    /\ \E n \in 1..Len(flights) : ~Parses(flights[n].arrive_time)

\* C32: _load_parse(q) returns the parse most recently saved by
\* _save_parse(p, q') exactly when q and q' are equal after stripping
\* surrounding whitespace; it returns None, and does not raise, when nothing
\* was saved, when the texts differ or when the file is malformed; a later
\* save replaces the earlier one.
C32_LoadReturnsLastSaved ==
    [][op'.n = op.n + 1 /\ op'.name = "_load_parse" =>
         /\ op'.raised = ""
         /\ op'.ret = IF /\ saved.n > 0
                         /\ StripText(op'.key) = StripText(saved.query_text)
                      THEN saved.parsed
                      ELSE NoParse]_vars

\* C33: parse_query(q) with force false returns the persisted parse for q
\* without a request to the model whenever there is one; with force true, or
\* without a matching persisted parse, it sends the request, returns the
\* fresh parse and persists it, so that _load_parse(q) then returns it.
C33_ParseQueryReusesPersisted ==
    [][op'.n = op.n + 1 /\ op'.name = "parse_query" =>
         \A q \in QueryTexts :
            op'.key = q =>
              LET persisted == _load_parse(q).ret
                  forced == op'.lookup = "forced"
              IN  /\ ~forced /\ persisted # NoParse =>
                        /\ op'.raised = ""
                        /\ op'.call = "none"
                        /\ op'.ret = persisted
                  /\ forced \/ persisted = NoParse =>
                        /\ op'.call = "llm"
                        /\ op'.raised = "" =>
                              /\ op'.ret = op'.arg
                              /\ (_load_parse(q))' = [raised |-> "", ret |-> op'.arg]]_vars

\* C34: two consecutive external calls of a fetch_all run are separated by a
\* delay; in particular a step that sends a request (ev.call is not "none")
\* is not followed at once, no sleep in between, by another step that sends
\* one.
C34_DelayBetweenCalls ==
    [][ev.call # "none" => ev'.call = "none"]_vars

\* C35: when a process writes the cache entry of an answered call its usage
\* increment has already been written; the cache steps of _cache_store leave
\* the usage file as it is, whether or not the write succeeds; and after the
\* write, failed or not, the process returns the response it received.
C35_IncrementBeforeCacheWrite ==
    [][\A p \in Procs :
          /\ (proc[p].pc = "load_cache" /\ proc'[p].pc # "load_cache") =>
                usageFile' = usageFile
          /\ (proc[p].pc = "save_cache" /\ proc'[p].pc # "save_cache") =>
                /\ proc[p].incremented
                /\ usageFile' = usageFile
                /\ proc'[p].pc = "done"
                /\ proc'[p].ret = proc[p].ret
                /\ proc'[p].ret.tag = "response"]_vars

\* the cache file cannot be written: a process has counted its call, failed
\* to store the response and returned it
C35_Witness ==
    /\ ~NO_CACHE
    /\ ~cacheWritable
    /\ \E p \in Procs :
          /\ proc[p].pc = "done"
          /\ proc[p].incremented
          /\ ~proc[p].stored
          /\ proc[p].ret.tag = "response"
    /\ PersistedCount > usage0
    /\ _cache_load = EmptyDict

\* the positions of the list fetch_all is building that hold a fatal sentinel
Sentinels == {n \in 1..Len(results) : IsFatal(results[n])}

\* C36: the list fetch_all returns holds a fatal sentinel exactly when a
\* primary call of the run was answered with an invalid-credential error; it
\* never holds more than one, and what follows the sentinel was appended by
\* the dual-fetch loop: no primary response and no unit of the main loop.
C36_OneSentinelIffAuthError ==
    /\ Cardinality(Sentinels) <= 1
    /\ Sentinels # {} => hist.authAt > 0
    /\ pc = "done" => (Sentinels # {} <=> hist.authAt > 0)
    /\ \A n \in Sentinels :
          /\ Len(results) - n = hist.dualUnits
          /\ \A x \in (n + 1)..Len(results) : results[x].tag = "independent"

\* a run whose second primary call met the invalid-credential error has
\* returned the first response, the sentinel and a unit of the dual-fetch loop
C36_Witness ==
    /\ pc = "done"
    /\ hist.authAt = 2
    /\ Len(results) > 2
    /\ ~IsFatal(results[1])
    /\ Sentinels # {}
    /\ hist.dualUnits > 0
    /\ results[Len(results)].tag = "independent"

\* C37: a write of the cache never removes an entry a lookup would still
\* return, that is an entry whose age is at most the TTL: the freshness test
\* of the pruning and that of _cache_lookup agree on every age.
C37_StoreKeepsWhatLookupReturns ==
    [][cacheFile' # cacheFile =>
         \A key \in DOMAIN _cache_load :
            now - _cache_load[key].timestamp <= TtlSeconds =>
               key \in DOMAIN cacheFile'.entries]_vars

\* C38: in the list main hands to the exporter every result flagged
\* preferred precedes every result that is not.
C38_PreferredFirstInOutput ==
    pc = "export" =>
       \A x, y \in 1..Len(flights) :
          x < y /\ flights[y].preferred => flights[x].preferred

\* the keys fetch_all looks up for a combination: the round-trip call and,
\* for a round trip, the two one-way calls
LookedUp(combo) ==
    {_cache_key(_build_params(combo))}
    \cup (IF IsRoundTrip(combo)
          THEN {_cache_key(outbound_params(combo)), _cache_key(return_params(combo))}
          ELSE {})

\* C39: every entry seed_cache has written sits under a key that fetch_all
\* looks up for one of the combinations, metro codes included, so that every
\* seeded entry is hit.
C39_SeededKeysAreLookedUp ==
    pc = "seeded" =>
       \A key \in DOMAIN cacheFile.entries :
          \E n \in 1..Len(combinations) : key \in LookedUp(combinations[n])

\* the processes whose increment has been written, and whether the cache
\* file holds the entry of process p
Incremented == {p \in Procs : proc[p].incremented}
HoldsEntryOf(p) ==
    /\ cacheFile.readable
    /\ _cache_key(_build_params(ProcCombo(p))) \in DOMAIN cacheFile.entries

\* C40: when the two calls run one after the other no update is lost: the
\* persisted count is the initial count plus the number of increments written
\* and the cache file holds the entry of every process that stored one.  When
\* they interleave, a state is reachable in which an increment or an entry is
\* lost (C40_Witness).
C40_OneProcessLosesNothing ==
    pc = "one_process" =>
       /\ PersistedCount = usage0 + Cardinality(Incremented)
       /\ \A p \in Procs : proc[p].stored => HoldsEntryOf(p)

\* two interleaved calls have both counted and stored, and the files show
\* one increment and one entry fewer
C40_Witness ==
    /\ pc = "two_processes"
    /\ \A p \in Procs :
          proc[p].pc = "done" /\ proc[p].incremented /\ proc[p].stored
    /\ PersistedCount < usage0 + Cardinality(Incremented)
    /\ \E p \in Procs : ~HoldsEntryOf(p)

====
